---- MODULE Spec2Model ----
(***************************************************************************)
(* Model of the AGW client library (ThomasHabets/agw).                     *)
(*                                                                         *)
(* The blocking client of src/src/v1.rs: a reader thread that parses       *)
(* frames from the socket into the inbound channel, a writer thread that   *)
(* may fail on the socket, and one caller thread that runs version(),      *)
(* port_info(), port_cap(), connect() and the operations of a Connection.  *)
(* outq is the outbound queue as a log: every buffer enqueued, in order.   *)
(*                                                                         *)
(* The asynchronous client of src/src/async.rs: the Pipo task that reads    *)
(* frames and hands them to the Router, the rules of the Router with their *)
(* channels, and one caller task.  A program builds one of the two clients;*)
(* `mode` says which.  In the mode "codec" the functions that make and     *)
(* read the bytes of callsigns and frames (src/src/call.rs, header.rs,     *)
(* packet.rs) are applied to inputs chosen at the start.  The mode "writer" *)
(* is the outbound path of the blocking client down to the bytes on the    *)
(* socket: AGW::send and the writer thread.  The mode "proxy" is the proxy  *)
(* (proxy.rs) between a downstream client and the upstream host.  The mode  *)
(* "stream" is the inbound path in bytes: the socket delivers the frames   *)
(* of the host in pieces to a reader thread (AGW::reader of v1.rs, as      *)
(* ConnectionV2::rx_loop of proxy.rs) or to the I/O task of async.rs.      *)
(* The mode "router" is the Router of async.rs with tasks that call add    *)
(* at the same time.  The mode "process" is one call of Router::process,   *)
(* rule by rule, while RuleHandles and Receivers are dropped.  The mode    *)
(* "flow" is the I/O task and the task of a circuit with the two bounded   *)
(* channels between them, by their fill.  The mode "circuit" is a circuit  *)
(* of the blocking client with a second thread that sends through a clone  *)
(* of the outbound Sender.                                                 *)
(*                                                                         *)
(* A frame of the host is a record [kind, src, dst, seq]: kind is the      *)
(* data_kind byte of the header, src and dst are the header's callsigns    *)
(* (NoCall when the ten bytes are zero) and seq is the payload; the host   *)
(* of the model gives the n-th frame it sends the payload n, so that two   *)
(* frames never carry the same payload and the order of delivery can be    *)
(* read off the payloads.                                                  *)
(***************************************************************************)
EXTENDS Integers, Sequences, FiniteSets, TLC

\* Bounds of the model.
MaxFrames == 3      \* frames the host sends
MaxOut == 3         \* buffers enqueued on the outbound queue
MaxCallLen == 11    \* bytes of a string given to Call::from_bytes
MaxData == 2        \* bytes of data in a Data or Unproto packet
MaxVia == 2         \* via callsigns in a ConnectVia packet
MaxSend == 2        \* buffers given to AGW::send in the mode "writer"
MaxStream == 2      \* frames the host sends in the mode "stream"
MaxWrites == 1      \* outbound packets of the I/O task in the mode "stream"
MaxShort == 2       \* one-byte reads of the socket into one buffer of read_exact
MaxAdds == 3        \* calls of Router::add in the mode "router"
NumAdders == 2      \* tasks that call Router::add in the mode "router"
MaxPackets == 3     \* packets that reach the proxy, both sides together
MaxBase == 7        \* characters before the '-' of a text given to parse_call

\* src/src/lib.rs:45 (the check is commented out in src/src/packet.rs:128)
MAX_HOPS == 7

NoCall == "none"
Me == "A"
Remotes == {"B"}
\* via lists the caller passes to connect(): their lengths
ViaLens == {0, 7, 8}
\* payload lengths the caller passes to write()
WriteLens == {0, 1}
\* Frames of the host without callsigns: the replies to the queries
UnscopedKinds == {"R", "G", "g"}
\* Frames of the host with callsigns, <<kind, src, dst>>: those of the
\* circuit B -> A, and Data from another station
ScopedIn == {<<"C", "B", "A">>, <<"D", "B", "A">>, <<"d", "B", "A">>,
             <<"D", "C", "A">>}

VARIABLES
    mode,         \* "v1": v1::AGW::new was called; "async": async::AGW::new
    nread,        \* reads of a frame the reader has made on the socket
    readerAlive,  \* the reader thread runs (it owns the inbound Sender)
    chan,         \* AGW.rx: the inbound mpsc channel
    rxqueue,      \* AGW.rxqueue: the overflow queue
    outq,         \* every buffer enqueued on AGW.tx, in enqueue order
    writerAlive,  \* the writer thread runs (it owns the outbound Receiver)
    agwAlive,     \* the AGW object exists (it owns the inbound Receiver)
    pc,           \* where the caller thread is
    call,         \* the arguments of the connect() in progress
    ret,          \* what the last operation returned
    conn,         \* the Connection created last
    reads         \* frames read() returned on conn, in call order

v1vars == <<nread, readerAlive, chan, rxqueue, outq, writerAlive, agwAlive,
            pc, call, ret, conn, reads>>

\* The asynchronous client.
VARIABLES
    anread,       \* reads of a header the Pipo task has made on the socket
    pstate,       \* PIPOState of the Pipo task, or that run() has ended
    ptx,          \* Pipo.tx: the outbound channel of packets
    rident,       \* Router.ident
    rules,        \* Router.rules
    rchan,        \* the channel of each rule, by the rule's ident
    apc,          \* where the caller task is
    acall,        \* the arguments and rule handles of the connect() in progress
    aconn,        \* the Connection created last
    areads        \* packets Connection::recv returned on aconn, in call order

avars == <<anread, pstate, ptx, rident, rules, rchan, apc, acall,
           aconn, areads>>

\* The functions on bytes.
VARIABLES
    cin,          \* the input chosen
    cout          \* what the functions applied so far have returned

cvars == <<cin, cout>>

\* The outbound path of the blocking client, in bytes, as one record.
VARIABLES
    wr

\* every buffer AGW::send has put on AGW.tx, in order
wlog == wr.log
\* who enqueued each of them
wby == wr.by
\* the outbound mpsc channel: the buffers not yet dequeued
wchan == wr.chan
\* the bytes the socket has accepted, in order
sock == wr.sock
\* the writer thread runs
wAlive == wr.alive

wvars == <<wr>>

\* The proxy, as one record.  The two sides are "down" (the client) and
\* "up" (the host).
VARIABLES
    px

\* packets the rx_loop threads have received so far
px_n == px.n
\* per side: the rx_loop thread runs
px_alive == px.alive
\* per side: ConnectionV2.rx, the packets not yet taken
px_rx == px.rx
\* per side: every packet given to ConnectionV2::send
px_tx == px.tx
\* per side: what the callback made of the packets taken
px_got == px.got
\* Proxy::run: "new", "loop", or "err" once it returned; then "drop" while
\* the Proxy is being dropped and "dropped" afterwards
px_run == px.run
\* per side: the thread that writes the packets of ConnectionV2.tx runs
px_txalive == px.txalive
\* per side: how many of these packets that thread has taken
px_txn == px.txn
\* the threads Drop for ConnectionV2 has still to join, in order
px_joins == px.joins

pxvars == <<px>>

\* The inbound path in bytes, as one record.
VARIABLES
    strm

\* "reader" (AGW::reader), "rx_loop" (the proxy), or "pipo" (the async I/O
\* task)
s_flavour == strm.flavour
\* the frames the host sends, each as its bytes
s_frames == strm.frames
\* bytes taken from the socket so far
s_pos == strm.pos
\* the bytes read so far into the buffer of read_exact
s_buf == strm.buf
\* what is being read: the header, or the payload of a header
s_st == strm.st
\* what was delivered to the channel or the router, in order
s_got == strm.got
\* outbound packets the I/O task has written
s_writes == strm.writes

svars == <<strm>>

\* The Router under concurrent calls of add, as one record.
VARIABLES
    rtr

\* Router.ident, the value under the mutex
ro_ident == rtr.ident
\* Router.rules: the ident of each rule, in list order
ro_rules == rtr.rules
\* per task: "idle", or "push" between the two locks of add
ro_pc == rtr.pc
\* per task: the local `ident` of the add under way
ro_id == rtr.id
\* the idents of the live RuleHandles
ro_handles == rtr.handles
\* every ident handed out, in the order of the locking
ro_order == rtr.order

rovars == <<rtr>>

\* One call of Router::process, rule by rule, with the drops of RuleHandles
\* and Receivers in between, as one record.
VARIABLES
    rp

\* Router.rules
rp_rules == rp.rules
\* the idents of the live RuleHandles
rp_handles == rp.handles
\* the channel of each rule, by the rule's ident
rp_chan == rp.chan
\* the call of process: where it is, its packet, what is left of its
\* snapshot of the rules, `any`, and what it returned
rp_call == rp.call
\* the idents whose RuleHandle had been dropped when process was called
rp_gone == rp.gone

rpvars == <<rp>>

\* The two channels between a circuit's task and the I/O task of the
\* asynchronous client, by their fill, as one record.
VARIABLES
    fl

\* packets on the channel of the circuit's data rule (capacity DATA_CAP)
fl_data == fl.data
\* packets on Pipo.tx, the outbound channel (capacity PIPO_CAP)
fl_out == fl.out
\* the I/O task: "select" (in a select! of run) or "process" (in the send
\* of Router::process, waiting for room)
fl_io == fl.io
\* the task of the circuit: "idle", or "send" (in Connection::send,
\* waiting for room)
fl_task == fl.task

flvars == <<fl>>

\* A circuit of the blocking client with a thread that sends through a
\* clone of the outbound Sender, as one record.
VARIABLES
    ck

\* Connection.disconnected
ck_disconnected == ck.disconnected
\* the Connection: "open" or "dropped"
ck_state == ck.state
\* the thread with the clone from Connection::sender and the MakeWriter:
\* "run", or "done" once it has sent its Disconnect and returned
ck_thread == ck.thread
\* the kind of every frame enqueued on the outbound queue, in order
ck_out == ck.out
\* the writer thread runs (the outbound queue is open)
ck_writer == ck.writer
\* how many frames were enqueued when the drop of the Connection returned
ck_life == ck.life

ckvars == <<ck>>

vars == <<mode, v1vars, avars, cvars, wvars, pxvars, svars, rovars, rpvars,
          flvars, ckvars>>

\* A step of the blocking client leaves the asynchronous client alone, and
\* so on.
\* (The actions of the blocking client test the mode first and state this
\* last, after their own conditions.)
V1Only ==
    /\ mode = "v1"
    /\ UNCHANGED <<mode, avars, cvars, wvars, pxvars, svars, rovars,
                    rpvars, flvars,
                    ckvars>>
AsyncOnly ==
    /\ mode = "async"
    /\ UNCHANGED <<mode, v1vars, cvars, wvars, pxvars, svars, rovars,
                    rpvars, flvars,
                    ckvars>>
CodecOnly ==
    /\ mode = "codec"
    /\ UNCHANGED <<mode, v1vars, avars, wvars, pxvars, svars, rovars,
                    rpvars, flvars,
                    ckvars>>
WriterOnly ==
    /\ mode = "writer"
    /\ UNCHANGED <<mode, v1vars, avars, cvars, pxvars, svars, rovars,
                    rpvars, flvars,
                    ckvars>>
ProxyOnly ==
    /\ mode = "proxy"
    /\ UNCHANGED <<mode, v1vars, avars, cvars, wvars, svars, rovars,
                    rpvars, flvars,
                    ckvars>>
StreamOnly ==
    /\ mode = "stream"
    /\ UNCHANGED <<mode, v1vars, avars, cvars, wvars, pxvars, rovars,
                    rpvars, flvars,
                    ckvars>>
RouterOnly ==
    /\ mode = "router"
    /\ UNCHANGED <<mode, v1vars, avars, cvars, wvars, pxvars, svars,
                    rpvars, flvars,
                    ckvars>>
ProcessOnly ==
    /\ mode = "process"
    /\ UNCHANGED <<mode, v1vars, avars, cvars, wvars, pxvars, svars,
                    rovars, flvars,
                    ckvars>>
FlowOnly ==
    /\ mode = "flow"
    /\ UNCHANGED <<mode, v1vars, avars, cvars, wvars, pxvars, svars,
                    rovars, rpvars, ckvars>>
CircuitOnly ==
    /\ mode = "circuit"
    /\ UNCHANGED <<mode, v1vars, avars, cvars, wvars, pxvars, svars,
                    rovars, rpvars, flvars>>

Range(s) == {s[i] : i \in 1..Len(s)}

\* The start of the banner of a `C` frame: of an accepted outbound connect,
\* or any other text
BannerWith == "*** CONNECTED With Station "
BannerOther == "*** SOMETHING ELSE "

\* The payload of the n-th frame of the host when its kind is k: the eight
\* bytes of a version reply (both bytes of major and of minor differ), the
\* banner of a connect reply; of the other kinds only the number n is kept.
Payload(k, n) ==
    CASE k = "R" -> <<n, 1, 0, 0, n + 1, 2, 0, 0>>
      [] k = "C" -> <<BannerWith>>
      [] OTHER -> <<>>

\* the two bytes read with the high byte first
U16BE(data, i) == 256 * data[i + 1] + data[i + 2]

\* u16::from_le_bytes(data[i..i+2]), i counted from 0
U16LE(data, i) == data[i + 1] + 256 * data[i + 2]

\* parse_reply: the Reply made of the payload, for the kinds whose payload
\* the model keeps
parse_reply(k, data) ==
    IF k = "R" THEN <<U16LE(data, 0), U16LE(data, 4)>> ELSE data

\* (Header, Reply) of the n-th frame of the host
Frame(k, s, d, n) ==
    [kind |-> k, src |-> s, dst |-> d, seq |-> n,
     reply |-> parse_reply(k, Payload(k, n))]
NoFrame == Frame("none", NoCall, NoCall, 0)

\* The frames the host may send as its n-th frame; the last is a connect
\* reply of B with another banner.
InFrames(n) ==
    {Frame(k, NoCall, NoCall, n) : k \in UnscopedKinds}
    \cup {Frame(t[1], t[2], t[3], n) : t \in ScopedIn}
    \cup {[Frame("C", "B", "A", n) EXCEPT
                !.reply = parse_reply("C", <<BannerOther>>)]}

\* Packet::serialize: an outbound buffer, by its header fields and payload.
OutFrame(k, s, d, data) == [kind |-> k, src |-> s, dst |-> d, data |-> data]

\* The port and the pid the caller connects with.
ConnPort == 0
ConnPid == 240

\* Packet::Data as write_connected builds it
DataFrame(port, pid, s, d, data) ==
    [kind |-> "D", port |-> port, pid |-> pid, src |-> s, dst |-> d,
     data |-> data]

NoConn == [state |-> "none"]
NoArgs == [op |-> "none"]
Returned(op, status, f) == [op |-> op, status |-> status, frame |-> f]
\* Ok(n) of an operation that returns a count
ReturnedLen(op, n) ==
    [op |-> op, status |-> "ok", frame |-> NoFrame, len |-> n]
\* no operation has returned since the one in progress started
NoRet == Returned("none", "none", NoFrame)

V1Init ==
    /\ nread = 0
    /\ readerAlive = TRUE
    /\ chan = <<>>
    /\ rxqueue = <<>>
    /\ outq = <<>>
    /\ writerAlive = TRUE
    /\ agwAlive = TRUE
    /\ pc = "idle"
    /\ call = NoArgs
    /\ ret = NoRet
    /\ conn = NoConn
    /\ reads = <<>>

-----------------------------------------------------------------------------
(* The socket workers.                                                     *)

\* a reader that goes on after a Disconnect, as the reader of lib.rs does
IsDoneNever(f) == FALSE

\* AGW::reader: the frame that ends the loop.
IsDone(f) == f.kind = "d"

\* AGW::reader: read one frame from the socket, parse it, send it on the
\* inbound channel; stop after a Disconnect, or when the send fails because
\* the AGW (the Receiver) is gone.
reader ==
    /\ mode = "v1"
    /\ readerAlive
    /\ nread < MaxFrames
    /\ \E f \in InFrames(nread + 1) :
        /\ nread' = nread + 1
        /\ IF agwAlive
           THEN /\ chan' = Append(chan, f)
                /\ readerAlive' = ~IsDone(f)
           ELSE /\ chan' = chan
                /\ readerAlive' = FALSE
    /\ UNCHANGED <<rxqueue, outq, writerAlive, agwAlive, pc, call, ret, conn,
                   reads>>
    /\ V1Only

\* AGW::reader: read_exact returns an error (the host closed the socket
\* instead of sending its next frame).
reader_error ==
    /\ mode = "v1"
    /\ readerAlive
    /\ nread < MaxFrames
    /\ nread' = nread + 1
    /\ readerAlive' = FALSE
    /\ UNCHANGED << chan, rxqueue, outq, writerAlive, agwAlive, pc,
                   call, ret, conn, reads>>
    /\ V1Only

\* AGW::writer: stream.write of a dequeued buffer returns an error; the
\* thread ends and the outbound Receiver is dropped.  (A write that succeeds
\* changes nothing the caller thread can see.)
writer_error ==
    /\ mode = "v1"
    /\ writerAlive
    /\ outq # <<>>
    /\ writerAlive' = FALSE
    /\ UNCHANGED <<nread, readerAlive, chan, rxqueue, outq, agwAlive, pc,
                   call, ret, conn, reads>>
    /\ V1Only

\* AGW::writer: rx.recv()? fails, the AGW (the outbound Sender) is gone;
\* the thread ends
writer_exit ==
    /\ mode = "v1"
    /\ writerAlive
    /\ ~agwAlive
    /\ writerAlive' = FALSE
    /\ UNCHANGED <<nread, readerAlive, chan, rxqueue, outq, agwAlive, pc,
                   call, ret, conn, reads>>
    /\ V1Only

-----------------------------------------------------------------------------
(* The caller thread: request/response operations.                         *)

\* an overflow queue that takes new frames at the front
rx_enqueue_front(q, f) == <<f>> \o q

\* AGW::rx_enqueue
rx_enqueue(q, f) == Append(q, f)

\* The caller thread may start an operation on the AGW itself: a live
\* Connection borrows the AGW mutably.
CanCallAGW ==
    /\ pc = "idle"
    /\ agwAlive
    /\ conn.state # "open"

\* The caller drops the AGW: its Receiver with the frames still in the
\* channel, its Sender and its overflow queue go, and with them what the
\* caller held of it; the sockets stay with the two threads.
agw_drop ==
    /\ mode = "v1"
    /\ CanCallAGW
    /\ agwAlive' = FALSE
    /\ chan' = <<>>
    /\ rxqueue' = <<>>
    /\ ret' = NoRet
    /\ conn' = NoConn
    /\ reads' = <<>>
    /\ UNCHANGED <<nread, readerAlive, outq, writerAlive, pc, call>>
    /\ V1Only

\* version / port_info / port_cap: self.send(query)?
RequestSend(op, kind) ==
    /\ mode = "v1"
    /\ CanCallAGW
    /\ IF writerAlive
       THEN /\ Len(outq) < MaxOut
            /\ outq' = Append(outq, OutFrame(kind, NoCall, NoCall, <<>>))
            /\ pc' = op
            /\ ret' = NoRet
       ELSE /\ outq' = outq
            /\ pc' = "idle"
            /\ ret' = Returned(op, "err", NoFrame)
    /\ UNCHANGED <<nread, readerAlive, chan, rxqueue, writerAlive, agwAlive,
                   call, conn, reads>>
    /\ V1Only

\* version / port_info / port_cap: one turn of the loop around rx.recv()
RequestRecv(op, kind) ==
    /\ mode = "v1"
    /\ pc = op
    /\ chan # <<>>
    /\ chan' = Tail(chan)
    /\ IF Head(chan).kind = kind
       THEN /\ ret' = Returned(op, "ok", Head(chan))
            /\ pc' = "idle"
            /\ rxqueue' = rxqueue
       ELSE /\ rxqueue' = rx_enqueue(rxqueue, Head(chan))
            /\ UNCHANGED <<pc, ret>>
    /\ UNCHANGED <<nread, readerAlive, outq, writerAlive, agwAlive, call,
                   conn, reads>>
    /\ V1Only

\* rx.recv()? on an empty channel whose Sender is gone
RecvError(op) ==
    /\ mode = "v1"
    /\ pc = op
    /\ chan = <<>>
    /\ ~readerAlive
    /\ pc' = "idle"
    /\ ret' = Returned(op, "err", NoFrame)
    /\ call' = NoArgs
    /\ conn' = IF op = "read" THEN [conn EXCEPT !.eof = TRUE] ELSE conn
    /\ UNCHANGED <<nread, readerAlive, chan, rxqueue, outq, writerAlive,
                   agwAlive, reads>>
    /\ V1Only

version ==
    RequestSend("version", "R") \/ RequestRecv("version", "R")
        \/ RecvError("version")

port_info ==
    RequestSend("port_info", "G") \/ RequestRecv("port_info", "G")
        \/ RecvError("port_info")

port_cap ==
    RequestSend("port_cap", "g") \/ RequestRecv("port_cap", "g")
        \/ RecvError("port_cap")

-----------------------------------------------------------------------------
(* The caller thread: connect().                                           *)

\* AGW::connect: the test that skips a frame ("Got packet not for us")
NotForUs(h, src, dst) ==
    \/ h.src = NoCall \/ h.src # dst
    \/ h.dst = NoCall \/ h.dst # src

\* Packet::ConnectVia serialized: the hop count, then each via callsign
ViaPayload(via) == <<Len(via)>> \o via

\* Connection::new
NewConnection(src, dst, connect_string) ==
    [state |-> "open", port |-> call.port, pid |-> call.pid,
     src |-> src, dst |-> dst,
     connect_string |-> connect_string, disconnected |-> FALSE,
     eof |-> FALSE, base |-> Len(outq)]

\* AGW::connect up to the loop: send Connect, or send ConnectVia and todo!()
connect_send ==
    /\ mode = "v1"
    /\ CanCallAGW
    /\ IF ~writerAlive
       THEN \* self.send fails whatever the arguments are
            /\ ret' = Returned("connect", "err", NoFrame)
            /\ UNCHANGED <<outq, pc, call, agwAlive, chan, rxqueue, conn,
                           reads>>
       ELSE \E dst \in Remotes, n \in ViaLens :
            LET via == [i \in 1..n |-> "V"]
                args == [op |-> "connect", port |-> ConnPort, pid |-> ConnPid,
                         src |-> Me, dst |-> dst, via |-> via,
                         base |-> Len(outq)]
            IN   /\ Len(outq) < MaxOut
                 /\ call' = args
                 /\ IF via = <<>>
                    THEN /\ outq' = Append(outq, OutFrame("C", Me, dst, <<>>))
                         /\ pc' = "connect"
                         /\ ret' = NoRet
                         /\ UNCHANGED <<agwAlive, chan, rxqueue, conn, reads>>
                    ELSE \* todo!(): the unwinding drops the AGW, and the
                         \* inbound channel and the overflow queue with it
                         /\ outq' = Append(outq,
                                        OutFrame("v", Me, dst, ViaPayload(via)))
                         /\ pc' = "panicked"
                         /\ ret' = Returned("connect", "panic", NoFrame)
                         /\ agwAlive' = FALSE
                         /\ chan' = <<>>
                         /\ rxqueue' = <<>>
                         /\ conn' = NoConn
                         /\ reads' = <<>>
    /\ UNCHANGED <<nread, readerAlive, writerAlive>>
    /\ V1Only

\* AGW::connect: one turn of the loop around rx.recv()
connect_recv ==
    /\ mode = "v1"
    /\ pc = "connect"
    /\ chan # <<>>
    /\ chan' = Tail(chan)
    /\ LET head == Head(chan) IN
        IF NotForUs(head, call.src, call.dst)
        THEN UNCHANGED <<rxqueue, pc, call, ret, conn, reads>>
        ELSE IF head.kind = "C"
        THEN /\ conn' = NewConnection(call.src, call.dst, head.seq)
             /\ reads' = <<>>
             /\ ret' = Returned("connect", "ok", head)
             /\ pc' = "idle"
             /\ call' = NoArgs
             /\ rxqueue' = rxqueue
        ELSE /\ rxqueue' = rx_enqueue(rxqueue, head)
             /\ UNCHANGED <<pc, call, ret, conn, reads>>
    /\ UNCHANGED <<nread, readerAlive, outq, writerAlive, agwAlive>>
    /\ V1Only

connect == connect_send \/ connect_recv \/ RecvError("connect")

-----------------------------------------------------------------------------
(* The caller thread: operations of a Connection.                          *)

CanCallConn ==
    /\ pc = "idle"
    /\ agwAlive
    /\ conn.state = "open"

\* AGW::read_connected: the test of the queue scan (the negation of its
\* `continue`)
ForCircuit(h, me, remote) == h.src = remote /\ h.dst = me

\* a scan that returns at the last entry of the circuit, not the first
ScanStopLast(q, me, remote) ==
    LET hits == {i \in 1..Len(q) :
                    ForCircuit(q[i], me, remote) /\ q[i].kind \in {"D", "d"}}
    IN  IF hits = {} THEN 0
        ELSE CHOOSE i \in hits : \A j \in hits : i >= j

\* AGW::read_connected: the entry at which the scan of the queue returns
\* (0: the scan reaches the end)
ScanStop(q, me, remote) ==
    LET hits == {i \in 1..Len(q) :
                    ForCircuit(q[i], me, remote) /\ q[i].kind \in {"D", "d"}}
    IN  IF hits = {} THEN 0
        ELSE CHOOSE i \in hits : \A j \in hits : i <= j

\* split_off(n); pop_front(); append(tail)
RemoveAt(q, n) == SubSeq(q, 1, n - 1) \o SubSeq(q, n + 1, Len(q))

\* AGW::read_connected: scan of the overflow queue
read_scan ==
    /\ mode = "v1"
    /\ CanCallConn
    /\ LET n == ScanStop(rxqueue, conn.src, conn.dst) IN
        IF n = 0
        THEN /\ pc' = "read"
             /\ ret' = NoRet
             /\ UNCHANGED <<rxqueue, reads, conn>>
        ELSE IF rxqueue[n].kind = "D"
        THEN /\ rxqueue' = RemoveAt(rxqueue, n)
             /\ ret' = Returned("read", "ok", rxqueue[n])
             /\ reads' = Append(reads, rxqueue[n])
             /\ UNCHANGED <<pc, conn>>
        ELSE /\ ret' = Returned("read", "err", NoFrame)
             /\ conn' = [conn EXCEPT !.eof = TRUE]
             /\ UNCHANGED <<rxqueue, pc, reads>>
    /\ UNCHANGED <<nread, readerAlive, chan, outq, writerAlive, agwAlive,
                   call>>
    /\ V1Only

\* AGW::read_connected: one turn of the loop around rx.recv()
read_recv ==
    /\ mode = "v1"
    /\ pc = "read"
    /\ chan # <<>>
    /\ chan' = Tail(chan)
    /\ IF Head(chan).kind = "D"
       THEN /\ ret' = Returned("read", "ok", Head(chan))
            /\ reads' = Append(reads, Head(chan))
            /\ pc' = "idle"
            /\ rxqueue' = rxqueue
       ELSE /\ rxqueue' = rx_enqueue(rxqueue, Head(chan))
            /\ UNCHANGED <<pc, ret, reads>>
    /\ UNCHANGED <<nread, readerAlive, outq, writerAlive, agwAlive, call,
                   conn>>
    /\ V1Only

read == read_scan \/ read_recv \/ RecvError("read")

\* the bytes the caller writes
WriteData(len) == [i \in 1..len |-> 0]

\* a write_connected that sends a frame for no bytes too
write_sends_always(data) == TRUE

\* AGW::write_connected: `if len > 0`
write_sends(data) == Len(data) > 0

\* Connection::write -> AGW::write_connected
write ==
    /\ mode = "v1"
    /\ CanCallConn
    /\ \E len \in WriteLens :
        LET data == WriteData(len)
        IN  IF write_sends(data) /\ ~writerAlive
            THEN /\ ret' = Returned("write", "err", NoFrame)
                 /\ outq' = outq
            ELSE /\ write_sends(data) => Len(outq) < MaxOut
                 /\ outq' = IF write_sends(data)
                            THEN Append(outq,
                                        DataFrame(conn.port, conn.pid,
                                                  conn.src, conn.dst, data))
                            ELSE outq
                 /\ ret' = ReturnedLen("write", Len(data))
    /\ UNCHANGED <<nread, readerAlive, chan, rxqueue, writerAlive, agwAlive,
                   pc, call, conn, reads>>
    /\ V1Only

\* Connection::disconnect: the frame is sent when the circuit is not yet
\* marked disconnected
DisconnectSends(c) == ~c.disconnected /\ writerAlive

\* a disconnect() that does not set the flag
DisconnectedNoFlag(c) == c

\* Connection::disconnect: the Connection afterwards; `disconnected` is set
\* after a send that succeeded, and left alone by `?` when it failed
Disconnected(c) ==
    IF DisconnectSends(c) THEN [c EXCEPT !.disconnected = TRUE] ELSE c

\* a disconnect() that returns Ok(()) whatever the send did
DisconnectStatusOk(c) == "ok"

\* Connection::disconnect: what it returns
DisconnectStatus(c) ==
    IF c.disconnected \/ writerAlive THEN "ok" ELSE "err"

disconnect ==
    /\ mode = "v1"
    /\ CanCallConn
    /\ DisconnectSends(conn) => Len(outq) < MaxOut
    /\ outq' = IF DisconnectSends(conn)
               THEN Append(outq, OutFrame("d", conn.src, conn.dst, <<>>))
               ELSE outq
    /\ conn' = Disconnected(conn)
    /\ ret' = Returned("disconnect", DisconnectStatus(conn), NoFrame)
    /\ UNCHANGED <<nread, readerAlive, chan, rxqueue, writerAlive, agwAlive,
                   pc, call, reads>>
    /\ V1Only

\* Drop for Connection: disconnect(), its error only logged; the borrow of
\* the AGW ends
drop ==
    /\ mode = "v1"
    /\ CanCallConn
    /\ DisconnectSends(conn) => Len(outq) < MaxOut
    /\ outq' = IF DisconnectSends(conn)
               THEN Append(outq, OutFrame("d", conn.src, conn.dst, <<>>))
               ELSE outq
    /\ conn' = [Disconnected(conn) EXCEPT !.state = "dropped"]
    /\ ret' = Returned("drop", "ok", NoFrame)
    /\ UNCHANGED <<nread, readerAlive, chan, rxqueue, writerAlive, agwAlive,
                   pc, call, reads>>
    /\ V1Only

-----------------------------------------------------------------------------
(* The asynchronous client: the Pipo task and the Router.                  *)

\* capacities of the channels made in AGW::connect and Pipo::new
ESTAB_CAP == 1
DATA_CAP == 10
PIPO_CAP == 10
\* the connect string AGW::connect gives the Connection, "TODO": the
\* payload of no frame (the n-th frame carries n >= 1)
TODO == 0

\* A frame of the host with the data_len of its header.
AFrame(k, s, d, n, len) ==
    [kind |-> k, src |-> s, dst |-> d, seq |-> n, len |-> len]

\* The frames the host may send as its n-th frame: Data of the circuit
\* B -> A and of another station, the connect reply (a `C` frame with a
\* banner of an accepted outbound connect), a Disconnect (no payload) and a
\* port information reply.
AInFrames(n) ==
    {AFrame("D", "B", "A", n, 1), AFrame("D", "C", "A", n, 1),
     AFrame("C", "B", "A", n, 1), AFrame("d", "B", "A", n, 0),
     AFrame("G", NoCall, NoCall, n, 1)}

AwaitHeader == [st |-> "AwaitHeader"]
GotHeader(h) == [st |-> "GotHeader", header |-> h]
\* inside Router::process, in a send that waits for room: the rules of the
\* snapshot from the waiting one on, and whether the Receiver has made room
InProcess(h, rs) ==
    [st |-> "InProcess", header |-> h, rest |-> rs, permit |-> FALSE]
Ended == [st |-> "ended"]

\* Packet::parse succeeds: a version reply, a connect reply or Data with
\* both callsigns
ParseOk(h) ==
    \/ h.kind = "R"
    \/ h.kind \in {"C", "D"} /\ h.src # NoCall /\ h.dst # NoCall

\* Packet::parse: the packet (seq names the frame it was parsed from; of a
\* `C` frame the packet keeps the header fields only)
Parse(h) ==
    [type |-> CASE h.kind = "D" -> "Data"
                [] h.kind = "C" -> "ConnectionEstablished"
                [] OTHER -> "VersionReply",
     src |-> h.src, dst |-> h.dst, seq |-> h.seq]

\* RuleMatch::matches
matches(m, packet) ==
    /\ m.kind = packet.type
    /\ m.src = packet.src
    /\ m.dst = packet.dst

\* mpsc::Sender::send on the channel of a rule
ChanSend(q, packet) == Append(q, packet)

\* Router::process: the loop over the snapshot of the rules.  status is
\* "ok" at the end of the loop, "err" when a send fails because the
\* Receiver is gone and "full" when a send has to wait for room (rest is
\* then what is left of the snapshot).
RECURSIVE process(_, _, _)
process(rs, ch, packet) ==
    IF rs = <<>> THEN [ch |-> ch, status |-> "ok"]
    ELSE LET rule == Head(rs) IN
        IF ~matches(rule.m, packet) THEN process(Tail(rs), ch, packet)
        ELSE IF ~ch[rule.ident].rx THEN [ch |-> ch, status |-> "err"]
        ELSE IF Len(ch[rule.ident].q) >= ch[rule.ident].cap
        THEN [ch |-> ch, status |-> "full", rest |-> rs]
        ELSE process(Tail(rs),
                     [ch EXCEPT ![rule.ident].q = ChanSend(@, packet)],
                     packet)

\* a Router::del that keeps every rule
del_kept(rs, ident) == rs

\* a Router::del that removes the last rule, whatever its ident
del_last(rs, ident) == SubSeq(rs, 1, Len(rs) - 1)

\* Router::del
del(rs, ident) == SelectSeq(rs, LAMBDA r : r.ident # ident)

\* Pipo::run, AwaitHeader: read_exact of a header completes
pipo_header ==
    /\ AsyncOnly
    /\ pstate = AwaitHeader
    /\ anread < MaxFrames
    /\ anread' = anread + 1
    /\ \E h \in AInFrames(anread + 1) : pstate' = GotHeader(h)
    /\ UNCHANGED <<ptx, rident, rules, rchan, apc, acall, aconn, areads>>

\* Pipo::run, GotHeader with data_len > 0: read_exact of the payload
\* completes; parse, Router::process.  An error ends run().
pipo_payload ==
    /\ AsyncOnly
    /\ pstate.st = "GotHeader"
    /\ pstate.header.len > 0
    /\ IF ~ParseOk(pstate.header)
       THEN /\ pstate' = Ended
            /\ rchan' = rchan
       ELSE LET r == process(rules, rchan, Parse(pstate.header)) IN
            /\ rchan' = r.ch
            /\ pstate' = CASE r.status = "ok" -> AwaitHeader
                           [] r.status = "full" ->
                                InProcess(pstate.header, r.rest)
                           [] OTHER -> Ended
    /\ UNCHANGED <<anread, ptx, rident, rules, apc, acall, aconn, areads>>

\* Router::process, the send that waited: the Receiver has taken a packet
\* and the send goes through (into a channel that may be gone by now), or
\* the Receiver was dropped with the channel full and the send fails; then
\* the rest of the loop.
pipo_process ==
    /\ AsyncOnly
    /\ pstate.st = "InProcess"
    /\ LET rule == Head(pstate.rest)
           packet == Parse(pstate.header)
       IN  /\ pstate.permit \/ ~rchan[rule.ident].rx
           /\ IF ~pstate.permit
              THEN /\ pstate' = Ended
                   /\ rchan' = rchan
              ELSE LET sent == IF rchan[rule.ident].rx
                               THEN [rchan EXCEPT ![rule.ident].q =
                                                    ChanSend(@, packet)]
                               ELSE rchan
                       r == process(Tail(pstate.rest), sent, packet)
                   IN  /\ rchan' = r.ch
                       /\ pstate' = CASE r.status = "ok" -> AwaitHeader
                                      [] r.status = "full" ->
                                            InProcess(pstate.header, r.rest)
                                      [] OTHER -> Ended
    /\ UNCHANGED <<anread, ptx, rident, rules, apc, acall, aconn, areads>>

\* Pipo::run: rx.recv() yields a packet, write_all.  (GotHeader with
\* data_len = 0 has no select: the loop turns without reading or writing.)
pipo_write ==
    /\ AsyncOnly
    /\ \/ pstate = AwaitHeader
       \/ pstate.st = "GotHeader" /\ pstate.header.len > 0
    /\ ptx # <<>>
    /\ ptx' = Tail(ptx)
    /\ UNCHANGED <<anread, pstate, rident, rules, rchan, apc, acall, aconn,
                   areads>>

\* Pipo::run: read_exact returns an error
pipo_error ==
    /\ AsyncOnly
    /\ \/ pstate = AwaitHeader
       \/ pstate.st = "GotHeader" /\ pstate.header.len > 0
    /\ anread < MaxFrames
    /\ anread' = anread + 1
    /\ pstate' = Ended
    /\ UNCHANGED <<ptx, rident, rules, rchan, apc, acall, aconn, areads>>

-----------------------------------------------------------------------------
(* The asynchronous client: the caller task.                               *)

NewChan(cap) == [rx |-> TRUE, cap |-> cap, q |-> <<>>]
Rule(ident, kind, src, dst) ==
    [ident |-> ident, m |-> [kind |-> kind, src |-> src, dst |-> dst]]

\* the Receiver of the channel of the rule `ident` takes a packet: a send
\* of Router::process that waits on that channel gets the room
Permit(ps, ident) ==
    IF ps.st = "InProcess" /\ Head(ps.rest).ident = ident
    THEN [ps EXCEPT !.permit = TRUE]
    ELSE ps

\* a connect() that registers the rule for the connect reply only
connect_rules_estab(rs, estab, data, src, dst) ==
    rs \o <<Rule(estab, "ConnectionEstablished", dst, src)>>

\* async AGW::connect: the rules it registers, (src, dst) of a rule being
\* (dst, src) of the request
connect_rules(rs, estab, data, src, dst) ==
    rs \o <<Rule(estab, "ConnectionEstablished", dst, src),
            Rule(data, "Data", dst, src)>>

\* async AGW::connect up to the send: mpsc::channel and Router::add, twice
aconnect_add ==
    /\ AsyncOnly
    /\ apc = "idle"
    /\ aconn.state # "open"
    /\ rident + 2 <= 2 * MaxOut
    /\ rident' = rident + 2
    /\ \E dst \in Remotes :
        LET estab == rident + 1
            data == rident + 2
        IN  /\ rules' = connect_rules(rules, estab, data, Me, dst)
            /\ rchan' = rchan \o <<NewChan(ESTAB_CAP), NewChan(DATA_CAP)>>
            /\ acall' = [op |-> "connect", src |-> Me, dst |-> dst,
                         estab |-> estab, data |-> data]
    /\ apc' = "added"
    /\ UNCHANGED <<anread, pstate, ptx, aconn, areads>>

\* async AGW::connect: send(Connect).  When the send fails (run() has ended
\* and dropped the Receiver) connect returns the error: the data rule's
\* handle, its Receiver, the other handle and its Receiver drop.
aconnect_send ==
    /\ AsyncOnly
    /\ apc = "added"
    /\ IF pstate = Ended
       THEN /\ rules' = del(del(rules, acall.data), acall.estab)
            /\ rchan' = [rchan EXCEPT
                            ![acall.estab] = [@ EXCEPT !.rx = FALSE,
                                                       !.q = <<>>],
                            ![acall.data] = [@ EXCEPT !.rx = FALSE,
                                                      !.q = <<>>]]
            /\ apc' = "idle"
            /\ acall' = NoArgs
            /\ ptx' = ptx
       ELSE /\ Len(ptx) < PIPO_CAP
            /\ ptx' = Append(ptx, [type |-> "Connect", src |-> acall.src,
                                   dst |-> acall.dst])
            /\ apc' = "connect"
            /\ UNCHANGED <<rules, rchan, acall>>
    /\ UNCHANGED <<anread, pstate, rident, aconn, areads>>

\* async AGW::connect: rx.recv() yields the packet; drop(ident); the
\* Connection takes the data rule and its Receiver
aconnect_recv ==
    /\ AsyncOnly
    /\ apc = "connect"
    /\ rchan[acall.estab].q # <<>>
    /\ rules' = del(rules, acall.estab)
    /\ rchan' = [rchan EXCEPT ![acall.estab] = [@ EXCEPT !.rx = FALSE,
                                                       !.q = <<>>]]
    /\ aconn' = [state |-> "open", src |-> acall.src, dst |-> acall.dst,
                 connect_string |-> TODO, rule |-> acall.data]
    /\ areads' = <<>>
    /\ apc' = "idle"
    /\ acall' = NoArgs
    /\ pstate' = Permit(pstate, acall.estab)
    /\ UNCHANGED <<anread, ptx, rident>>

\* async AGW::connect: the timeout comes first; expect() panics and the
\* unwinding drops both handles and both Receivers
aconnect_timeout ==
    /\ AsyncOnly
    /\ apc = "connect"
    /\ rchan[acall.estab].q = <<>>
    /\ rules' = del(del(rules, acall.estab), acall.data)
    /\ rchan' = [rchan EXCEPT ![acall.estab].rx = FALSE,
                              ![acall.data] = [@ EXCEPT !.rx = FALSE,
                                                      !.q = <<>>]]
    /\ apc' = "panicked"
    /\ UNCHANGED <<anread, pstate, ptx, rident, acall, aconn, areads>>

\* async Connection::recv
arecv ==
    /\ AsyncOnly
    /\ apc = "idle"
    /\ aconn.state = "open"
    /\ rchan[aconn.rule].q # <<>>
    /\ areads' = Append(areads, Head(rchan[aconn.rule].q))
    /\ rchan' = [rchan EXCEPT ![aconn.rule].q = Tail(@)]
    /\ pstate' = Permit(pstate, aconn.rule)
    /\ UNCHANGED <<anread, ptx, rident, rules, apc, acall, aconn>>

\* the async Connection is dropped: its RuleHandle, then its Receiver
adrop ==
    /\ AsyncOnly
    /\ apc = "idle"
    /\ aconn.state = "open"
    /\ rules' = del(rules, aconn.rule)
    /\ rchan' = [rchan EXCEPT ![aconn.rule] = [@ EXCEPT !.rx = FALSE,
                                                     !.q = <<>>]]
    /\ aconn' = [aconn EXCEPT !.state = "dropped"]
    /\ UNCHANGED <<anread, pstate, ptx, rident, apc, acall, areads>>

-----------------------------------------------------------------------------
(* Callsigns: src/src/call.rs.                                             *)

\* the length of Call.bytes
CALL_LEN == 10

\* bytes around every limit of the callsign alphabet: NUL, ' ', '-', '/',
\* '0', '9', ':', '@', 'A', 'Z', '[', '`', 'a', 'z', '{' and a byte that is
\* not ASCII
ByteSamples == {0, 32, 45, 47, 48, 57, 58, 64, 65, 90, 91, 96, 97, 122, 123, 200}

\* The strings given to Call::from_bytes: n bytes 'A' or n bytes NUL, with
\* one of the sample bytes at the place k.
CallInputs ==
    {[i \in 1..n |-> IF i = k THEN b ELSE fill] :
        n \in 0..MaxCallLen, k \in 1..MaxCallLen, b \in ByteSamples,
        fill \in {0, 65}}

\* u8::is_ascii_alphanumeric
is_ascii_alphanumeric(item) ==
    \/ item \in 48..57
    \/ item \in 65..90
    \/ item \in 97..122

\* a test of the bytes that lets '/' through
InvalidItemButSlash(item) ==
    item # 0 /\ ~is_ascii_alphanumeric(item) /\ item # 45 /\ item # 47

\* Call::from_bytes: the test of one byte, '-' being 45
InvalidItem(item) ==
    item # 0 /\ ~is_ascii_alphanumeric(item) /\ item # 45

CallErr == [ok |-> FALSE]
CallOk(arr) == [ok |-> TRUE, bytes |-> arr]

\* Call::from_bytes
from_bytes(bytes) ==
    IF Len(bytes) > CALL_LEN THEN CallErr
    ELSE IF \E i \in 1..Len(bytes) : InvalidItem(bytes[i]) THEN CallErr
    ELSE CallOk([i \in 1..CALL_LEN |->
                    IF i <= Len(bytes) THEN bytes[i] ELSE 0])

NoInput == [op |-> "none"]
NoOutput == [st |-> "none"]

\* the program calls Call::from_bytes on the input
call_from_bytes ==
    /\ CodecOnly
    /\ cin.op = "from_bytes"
    /\ cout = NoOutput
    /\ cout' = [st |-> "call", call |-> from_bytes(cin.bytes)]
    /\ cin' = cin

-----------------------------------------------------------------------------
(* Headers and packets: src/src/header.rs, src/src/packet.rs.              *)

HEADER_LEN == 36

None == [some |-> FALSE, bytes |-> <<>>]
Some(c) == [some |-> TRUE, bytes |-> c]

\* Header::new
Header_new(port, data_kind, pid, src, dst, data_len) ==
    [port |-> port, data_kind |-> data_kind, pid |-> pid,
     data_len |-> data_len, src |-> src, dst |-> dst]

\* u32::to_le_bytes and u32::from_le_bytes
u32_to_le_bytes(n) ==
    <<n % 256, (n \div 256) % 256, (n \div 65536) % 256,
      (n \div 16777216) % 256>>
\* (a number of 2^31 or more is beyond the integers of the model checker: it
\* is taken as 2^31 - 1, which is more bytes than any stream here has)
u32_from_le_bytes(b) ==
    IF b[4] >= 128 THEN 2147483647
    ELSE b[1] + 256 * b[2] + 65536 * b[3] + 16777216 * b[4]

\* Header::serialize; v[k] of the code is place k + 1 here
Header_serialize(h) ==
    [i \in 1..HEADER_LEN |->
        CASE i = 1 -> h.port
          [] i = 5 -> h.data_kind
          [] i = 7 -> h.pid
          [] i \in 9..18 -> IF h.src.some THEN h.src.bytes[i - 8] ELSE 0
          [] i \in 19..28 -> IF h.dst.some THEN h.dst.bytes[i - 18] ELSE 0
          [] i \in 29..32 -> u32_to_le_bytes(h.data_len)[i - 28]
          [] OTHER -> 0]

\* Call::is_empty
is_empty(c) == \A i \in 1..CALL_LEN : c[i] = 0

\* Call::string: the bytes before the first NUL
string(c) ==
    LET nul == {i \in 1..CALL_LEN : c[i] = 0}
    IN  IF nul = {} THEN c
        ELSE SubSeq(c, 1, (CHOOSE i \in nul : \A j \in nul : i <= j) - 1)

\* parse_header
parse_header(header) ==
    LET src == from_bytes(SubSeq(header, 9, 18))
        dst == from_bytes(SubSeq(header, 19, 28))
    IN  IF ~src.ok \/ ~dst.ok THEN [ok |-> FALSE]
        ELSE [ok |-> TRUE,
              header |-> Header_new(
                  header[1], header[5], header[7],
                  IF is_empty(src.bytes) THEN None ELSE Some(src.bytes),
                  IF is_empty(dst.bytes) THEN None ELSE Some(dst.bytes),
                  u32_from_le_bytes(SubSeq(header, 29, 32)))]

\* the data_kind bytes, in ASCII
Kind ==
    [R |-> 82, C |-> 67, v |-> 118, X |-> 88, d |-> 100, D |-> 68,
     M |-> 77, G |-> 71, g |-> 103]

\* the texts of the banners, in ASCII
ConnectedPrefix == <<42, 42, 42, 32, 67, 79, 78, 78, 69, 67, 84, 69, 68, 32>>
BannerWITH == ConnectedPrefix \o <<87, 73, 84, 72>>
BannerWithStation ==
    ConnectedPrefix \o <<87, 105, 116, 104, 32, 83, 116, 97, 116, 105, 111,
                         110, 32>>
BannerToStation ==
    ConnectedPrefix \o <<84, 111, 32, 83, 116, 97, 116, 105, 111, 110>>

\* str::starts_with
starts_with(s, prefix) ==
    Len(s) >= Len(prefix) /\ SubSeq(s, 1, Len(prefix)) = prefix

\* Packet::serialize
Packet_serialize(p) ==
    CASE p.type = "VersionQuery" ->
            Header_serialize(Header_new(0, Kind.R, 0, None, None, 0))
      [] p.type = "VersionReply" ->
            Header_serialize(Header_new(0, Kind.R, 0, None, None, 0))
            \o <<p.maj % 256, (p.maj \div 256) % 256, 0, 0,
                 p.min % 256, (p.min \div 256) % 256, 0, 0>>
      [] p.type = "Connect" ->
            Header_serialize(Header_new(p.port, Kind.C, p.pid, Some(p.src),
                                        Some(p.dst), 0))
      [] p.type = "IncomingConnect" ->
            Header_serialize(Header_new(p.port, Kind.C, p.pid, Some(p.src),
                                        Some(p.dst), 0))
            \o BannerToStation \o <<32>> \o string(p.src)
      [] p.type = "ConnectionEstablished" ->
            Header_serialize(Header_new(p.port, Kind.C, p.pid, Some(p.src),
                                        Some(p.dst), 0))
            \o BannerWithStation \o string(p.src)
      [] p.type = "ConnectVia" ->
            Header_serialize(Header_new(p.port, Kind.v, p.pid, Some(p.src),
                                        Some(p.dst), 0))
            \o <<Len(p.via) % 256>>
            \o [i \in 1..(CALL_LEN * Len(p.via)) |->
                    p.via[((i - 1) \div CALL_LEN) + 1][((i - 1) % CALL_LEN) + 1]]
      [] p.type = "RegisterCallsign" ->
            Header_serialize(Header_new(p.port, Kind.X, p.pid, Some(p.src),
                                        None, 0))
      [] p.type = "Disconnect" ->
            Header_serialize(Header_new(p.port, Kind.d, p.pid, Some(p.src),
                                        Some(p.dst), 0))
      [] p.type = "Data" ->
            Header_serialize(Header_new(p.port, Kind.D, p.pid, Some(p.src),
                                        Some(p.dst), Len(p.data)))
            \o p.data
      [] p.type = "Unproto" ->
            Header_serialize(Header_new(p.port, Kind.M, p.pid, Some(p.src),
                                        Some(p.dst), Len(p.data)))
            \o p.data
      [] p.type = "PortInfo" ->
            Header_serialize(Header_new(p.port, Kind.G, 0, None, None, 0))
      [] p.type = "PortCap" ->
            Header_serialize(Header_new(p.port, Kind.g, 0, None, None, 0))

ParseErr == [ok |-> FALSE]
ParseOkay(p) == [ok |-> TRUE, packet |-> p]

\* String::from_utf8 succeeds; of the bytes above 127 no valid sequence is
\* among the inputs
from_utf8_ok(data) == \A i \in 1..Len(data) : data[i] < 128

\* Packet::parse
Packet_parse(header, data) ==
    CASE header.data_kind = Kind.R ->
            IF Len(data) # 8 THEN ParseErr
            ELSE ParseOkay([type |-> "VersionReply",
                            maj |-> data[1] + 256 * data[2],
                            min |-> data[5] + 256 * data[6]])
      [] header.data_kind = Kind.C ->
            IF ~from_utf8_ok(data) \/ ~header.src.some \/ ~header.dst.some
            THEN ParseErr
            ELSE IF starts_with(data, BannerWITH)
                    \/ starts_with(data, BannerWithStation)
            THEN ParseOkay([type |-> "ConnectionEstablished",
                            port |-> header.port, pid |-> header.pid,
                            src |-> header.src.bytes,
                            dst |-> header.dst.bytes])
            ELSE IF starts_with(data, BannerToStation)
            THEN ParseOkay([type |-> "IncomingConnect",
                            port |-> header.port, pid |-> header.pid,
                            src |-> header.src.bytes,
                            dst |-> header.dst.bytes])
            ELSE ParseErr
      [] header.data_kind = Kind.D ->
            IF ~header.src.some \/ ~header.dst.some THEN ParseErr
            ELSE ParseOkay([type |-> "Data",
                            port |-> header.port, pid |-> header.pid,
                            src |-> header.src.bytes,
                            dst |-> header.dst.bytes, data |-> data])
      [] OTHER -> ParseErr

\* What a reader makes of the bytes of one frame: the header of HEADER_LEN
\* bytes, the data_len bytes after it, Packet::parse of both.
rx_loop(bytes) ==
    LET header == parse_header(SubSeq(bytes, 1, HEADER_LEN))
    IN  IF ~header.ok THEN ParseErr
        ELSE Packet_parse(header.header,
                          SubSeq(bytes, HEADER_LEN + 1,
                                 HEADER_LEN + header.header.data_len))

\* callsigns of the packets: "A", "B-1" and "W"
CallA == from_bytes(<<65>>).bytes
CallB == from_bytes(<<66, 45, 49>>).bytes
CallW == from_bytes(<<87>>).bytes

\* The packets given to Packet::serialize: every variant, with a port and
\* a pid that differ, version numbers with a low and a high byte, data of
\* 0..MaxData bytes and 0..MaxVia via callsigns.
PacketInputs ==
    LET circuit(t) == [type |-> t, port |-> 1, pid |-> 240,
                       src |-> CallA, dst |-> CallB]
    IN  {[type |-> "VersionQuery"]}
        \cup {[type |-> "VersionReply", maj |-> m[1], min |-> m[2]] :
                m \in {<<4, 3>>, <<2005, 127>>, <<0, 65535>>}}
        \cup {[type |-> t, port |-> 1] : t \in {"PortCap", "PortInfo"}}
        \cup {[type |-> "RegisterCallsign", port |-> 1, pid |-> 240,
               src |-> CallA]}
        \cup {circuit(t) : t \in {"Connect", "IncomingConnect",
                                  "ConnectionEstablished", "Disconnect"}}
        \cup {[type |-> "ConnectVia", port |-> 1, pid |-> 240,
               src |-> CallA, dst |-> CallB, via |-> [i \in 1..n |-> CallW]] :
                n \in 0..MaxVia}
        \cup {[type |-> t, port |-> 1, pid |-> 240, src |-> CallA,
               dst |-> CallB, data |-> [i \in 1..n |-> 96 + i]] :
                t \in {"Data", "Unproto"}, n \in 0..MaxData}

\* the program calls Packet::serialize on the input
packet_serialize ==
    /\ CodecOnly
    /\ cin.op = "serialize"
    /\ cout = NoOutput
    /\ cout' = [st |-> "bytes", bytes |-> Packet_serialize(cin.packet)]
    /\ cin' = cin

\* the bytes are read back as a frame
packet_parse ==
    /\ CodecOnly
    /\ cout.st = "bytes"
    /\ cout' = [st |-> "parsed", bytes |-> cout.bytes,
                parsed |-> rx_loop(cout.bytes)]
    /\ cin' = cin

-----------------------------------------------------------------------------
(* Callsigns of the native sockets: src/src/native/mod.rs.  A text is the  *)
(* sequence of the code points of its characters.                          *)

\* the characters tried in a base call: the ends of the ASCII classes, their
\* neighbours, and two characters outside ASCII ('a' with circumflex, and
\* the ellipsis of the tests)
CharSamples == {32, 47, 48, 57, 58, 64, 65, 90, 91, 96, 97, 122, 123, 226,
                8230}

\* what follows the base call: nothing, or '-' and an SSID text
SsidSuffixes ==
    {<<>>, <<45>>, <<45, 48>>, <<45, 49>>, <<45, 57>>, <<45, 49, 53>>,
     <<45, 49, 54>>, <<45, 50, 50>>, <<45, 48, 49, 53>>, <<45, 43, 53>>,
     <<45, 43>>, <<45, 50, 53, 53>>, <<45, 50, 53, 54>>, <<45, 120>>,
     <<45, 49, 45, 50>>, <<45, 45, 49>>, <<45, 49, 32>>}

\* The texts given to parse_call: n characters 'M' or 'm', then one of the
\* suffixes; and n characters 'M' or 'm' with one of the sample characters
\* at the place k, alone or with the suffix "-15".
ParseCallInputs ==
    {[i \in 1..n |-> fill] \o suffix :
        n \in 0..MaxBase, fill \in {77, 109}, suffix \in SsidSuffixes}
    \cup
    {[i \in 1..n |-> IF i = k THEN c ELSE fill] \o suffix :
        n \in 0..MaxBase, k \in 1..MaxBase, c \in CharSamples,
        fill \in {77, 109}, suffix \in {<<>>, <<45, 49, 53>>}}

\* str::len of a text: the bytes of its UTF-8 encoding
RECURSIVE str_len(_)
str_len(text) ==
    IF text = <<>> THEN 0
    ELSE (IF Head(text) < 128 THEN 1
          ELSE IF Head(text) < 2048 THEN 2
          ELSE IF Head(text) < 65536 THEN 3 ELSE 4) + str_len(Tail(text))

\* call.splitn(2, '-'): the text before the first '-', and the text after it
\* when there is one
splitn2(text) ==
    LET dashes == {i \in 1..Len(text) : text[i] = 45}
    IN  IF dashes = {}
        THEN <<text>>
        ELSE LET p == CHOOSE i \in dashes : \A j \in dashes : i <= j
             IN  <<SubSeq(text, 1, p - 1), SubSeq(text, p + 1, Len(text))>>

\* the number a sequence of decimal digits stands for
RECURSIVE decimal(_)
decimal(digits) ==
    IF digits = <<>> THEN 0
    ELSE 10 * decimal(SubSeq(digits, 1, Len(digits) - 1))
            + (digits[Len(digits)] - 48)

\* str::parse::<u8>: an optional '+', then one decimal digit or more, the
\* number no more than 255
parse_u8(text) ==
    LET digits == IF text # <<>> /\ Head(text) = 43 THEN Tail(text) ELSE text
    IN  IF /\ digits # <<>>
           /\ \A i \in 1..Len(digits) : digits[i] \in 48..57
           /\ decimal(digits) <= 255
        THEN [ok |-> TRUE, value |-> decimal(digits)]
        ELSE [ok |-> FALSE, value |-> 0]

\* a parse_call that keeps the case of the letters
to_uppercase_kept(ch) == ch

\* char::to_uppercase of an ASCII character
to_uppercase(ch) == IF ch \in 97..122 THEN ch - 32 ELSE ch

\* a & b of two u8
RECURSIVE BitAnd(_, _)
BitAnd(a, b) ==
    IF a = 0 \/ b = 0 THEN 0
    ELSE (a % 2) * (b % 2) + 2 * BitAnd(a \div 2, b \div 2)

\* x << 1 of a u8
shl1(x) == (2 * x) % 256

BinErr == [ok |-> FALSE, bin |-> <<>>]

\* parse_call
parse_call(text) ==
    LET empty == shl1(32)
        split == splitn2(text)
        call_ == split[1]
        parsed == IF Len(split) = 1 THEN [ok |-> TRUE, value |-> 0]
                  ELSE parse_u8(split[2])
        ssid == parsed.value
    IN  IF ~parsed.ok THEN BinErr
        ELSE IF ssid > 15 THEN BinErr
        ELSE IF str_len(call_) < 3 \/ str_len(call_) > 6 THEN BinErr
        ELSE IF \E i \in 1..Len(call_) : ~is_ascii_alphanumeric(call_[i])
        THEN BinErr
        ELSE [ok |-> TRUE,
              bin |-> [i \in 1..7 |->
                        IF i = 7 THEN BitAnd(shl1(ssid + 48), 30)
                        ELSE IF i <= Len(call_)
                        THEN shl1(to_uppercase(call_[i]))
                        ELSE empty]]

\* parse_call is applied to the text
native_parse_call ==
    /\ CodecOnly
    /\ cin.op = "parse_call"
    /\ cout = NoOutput
    /\ cout' = [st |-> "bin", result |-> parse_call(cin.text)]
    /\ cin' = cin

-----------------------------------------------------------------------------
(* The wrapping stream: src/src/wrap.rs, with the signing Wrapper of       *)
(* src/src/crypto/mod.rs.                                                  *)

\* libsodium's crypto_sign_bytes(): the bytes of a signature
crypto_sign_bytes == 64

\* the sizes of the caller's buffer: none, one byte, and what holds a
\* signature and 0, 1 or 2 bytes with it
BufLens == {0, 1, crypto_sign_bytes, crypto_sign_bytes + 1,
            crypto_sign_bytes + 2}

\* the n bytes the backend has next
BackendBytes(n) == [i \in 1..n |-> 100 + i]

\* crypto::sign: the signature (its bytes are not computed here: they are
\* 255) and the message after it; or an error when crypto_sign fails
sign(msg, fails) ==
    IF fails THEN [ok |-> FALSE, bytes |-> <<>>]
    ELSE [ok |-> TRUE, bytes |-> [i \in 1..crypto_sign_bytes |-> 255] \o msg]

\* <Wrap as Read>::read on a buffer of zeros: the backend reads size bytes
\* into it, or fails; the wrapper wraps them, or fails; copy_from_slice
\* panics unless the message is as long as the whole buffer
Wrap_read(buflen, size, backend_fails, wrap_fails) ==
    LET buf == [i \in 1..buflen |-> IF i <= size THEN BackendBytes(size)[i]
                                    ELSE 0]
        msg == sign(SubSeq(buf, 1, size), wrap_fails)
    IN  IF backend_fails THEN [result |-> "err", n |-> 0, buf |-> buf]
        ELSE IF ~msg.ok THEN [result |-> "err", n |-> 0, buf |-> buf]
        ELSE IF Len(msg.bytes) # buflen
        THEN [result |-> "panic", n |-> 0, buf |-> buf]
        ELSE [result |-> "ok", n |-> Len(msg.bytes), buf |-> msg.bytes]

\* <Wrap as Write>::write: self.backend.write(buf); the backend takes count
\* bytes, or fails
Wrap_write(buf, count, backend_fails) ==
    IF backend_fails THEN [result |-> "err", n |-> 0, written |-> <<>>]
    ELSE [result |-> "ok", n |-> count, written |-> SubSeq(buf, 1, count)]

WrapInputs ==
    {[op |-> "wrap_read", buflen |-> n[1], size |-> n[2],
      backend_fails |-> bf, wrap_fails |-> wf] :
        n \in {m \in BufLens \X (0..MaxData) : m[2] <= m[1]},
        bf \in BOOLEAN, wf \in BOOLEAN}
    \cup {[op |-> "wrap_write", buf |-> BackendBytes(n[1]), count |-> n[2],
           backend_fails |-> bf] :
            n \in {m \in (0..MaxData) \X (0..MaxData) : m[2] <= m[1]},
            bf \in BOOLEAN}

wrap_read ==
    /\ CodecOnly
    /\ cin.op = "wrap_read"
    /\ cout = NoOutput
    /\ cout' = [st |-> "wrap_read",
                read |-> Wrap_read(cin.buflen, cin.size, cin.backend_fails,
                                   cin.wrap_fails)]
    /\ cin' = cin

wrap_write ==
    /\ CodecOnly
    /\ cin.op = "wrap_write"
    /\ cout = NoOutput
    /\ cout' = [st |-> "wrap_write",
                write |-> Wrap_write(cin.buf, cin.count, cin.backend_fails)]
    /\ cin' = cin

CodecInputs ==
    {[op |-> "from_bytes", bytes |-> b] : b \in CallInputs}
    \cup WrapInputs
    \cup {[op |-> "serialize", packet |-> p] : p \in PacketInputs}
    \cup {[op |-> "parse_call", text |-> t] : t \in ParseCallInputs}

-----------------------------------------------------------------------------
(* The outbound path of the blocking client, in bytes.                     *)

\* The buffers the caller sends: a version query and a Data frame.
SendBuffers ==
    {Packet_serialize([type |-> "VersionQuery"]),
     Packet_serialize([type |-> "Data", port |-> 1, pid |-> 240,
                       src |-> CallA, dst |-> CallB, data |-> <<97, 98>>])}

\* What stream.write(&buf) may return: the socket takes one byte, the
\* header only, or the whole buffer.
WriteCounts(buf) == {1, HEADER_LEN, Len(buf)}

\* Who sends on the outbound channel: the caller thread through AGW::send
\* (the request operations, Connection::write), and a thread that holds a
\* clone of the Sender from Connection::sender.
Producers == {"caller", "sender"}

\* AGW::send, or send on a clone of AGW.tx
send ==
    /\ WriterOnly
    /\ wAlive
    /\ Len(wlog) < MaxSend
    /\ \E msg \in SendBuffers, p \in Producers :
        wr' = [wr EXCEPT !.log = Append(wlog, msg),
                         !.by = Append(wby, p),
                         !.chan = Append(wchan, msg)]

\* AGW::writer, one turn of the loop: rx.recv()?, stream.write(&buf)?; the
\* count that write returns is not looked at.
writer ==
    /\ WriterOnly
    /\ wAlive
    /\ wchan # <<>>
    /\ \E n \in WriteCounts(Head(wchan)) :
        wr' = [wr EXCEPT !.chan = Tail(wchan),
                         !.sock = sock \o SubSeq(Head(wchan), 1, n)]

\* AGW::writer: stream.write returns an error and the thread ends
writer_write_error ==
    /\ WriterOnly
    /\ wAlive
    /\ wchan # <<>>
    /\ wr' = [wr EXCEPT !.chan = <<>>, !.alive = FALSE]

WriterInit ==
    wr = [log |-> <<>>, by |-> <<>>, chan |-> <<>>, sock |-> <<>>,
          alive |-> TRUE]

-----------------------------------------------------------------------------
(* The proxy.                                                              *)

Sides == {"down", "up"}

\* the n-th packet that reaches the proxy, received from the given side
ProxyPacket(side, n) == [type |-> "Data", from |-> side, n |-> n]

\* the callbacks of the authproxy example: they print the packet and return
\* it
cb_up(packet) == packet
cb_down(packet) == packet

\* ConnectionV2::rx_loop of one side: a packet is read, parsed and sent on
\* the channel
proxy_rx_loop ==
    /\ ProxyOnly
    /\ px_n < MaxPackets
    /\ \E side \in Sides :
        /\ px_alive[side]
        /\ px' = [px EXCEPT
                    !.rx[side] = Append(@, ProxyPacket(side, px_n + 1)),
                    !.n = px_n + 1]

\* ConnectionV2::rx_loop of one side: read_exact returns an error (the peer
\* closed the socket); the thread ends and the Sender is dropped
proxy_rx_error ==
    /\ ProxyOnly
    /\ \E side \in Sides :
        /\ px_alive[side]
        /\ px' = [px EXCEPT !.alive[side] = FALSE]

\* Proxy::run up to the loop: self.up.send(Packet::VersionQuery)
proxy_run_start ==
    /\ ProxyOnly
    /\ px_run = "new"
    /\ px' = [px EXCEPT !.tx["up"] = Append(@, [type |-> "VersionQuery"]),
                        !.run = "loop"]

\* Proxy::run, one turn of the loop with a packet ready on one side: the
\* packet goes through the callback of that side, the result is logged and
\* dropped at the end of the branch
proxy_run_recv ==
    /\ ProxyOnly
    /\ px_run = "loop"
    /\ \E side \in Sides :
        /\ px_rx[side] # <<>>
        /\ LET packet == IF side = "down" THEN cb_down(Head(px_rx[side]))
                                          ELSE cb_up(Head(px_rx[side]))
           IN  px' = [px EXCEPT !.rx[side] = Tail(@),
                                !.got[side] = Append(@, packet)]

\* Proxy::run, one turn of the loop on a side whose channel is empty and
\* disconnected: `packet?` returns the error
proxy_run_error ==
    /\ ProxyOnly
    /\ px_run = "loop"
    /\ \E side \in Sides : px_rx[side] = <<>> /\ ~px_alive[side]
    /\ px' = [px EXCEPT !.run = "err"]

\* the thread of ConnectionV2::new that writes: `for packet in txrx`, one
\* turn; when wstream.write fails the `?` ends the thread
proxy_tx ==
    /\ ProxyOnly
    /\ \E side \in Sides, ok \in BOOLEAN :
        /\ px_txalive[side]
        /\ px_txn[side] < Len(px_tx[side])
        /\ px' = [px EXCEPT !.txn[side] = @ + 1,
                            !.txalive[side] = ok]

\* the fields of Proxy drop in the order up, down; Drop for ConnectionV2
\* joins txthread, then rxthread
ProxyJoins == <<<<"up", "tx">>, <<"up", "rx">>,
                <<"down", "tx">>, <<"down", "rx">>>>

\* the Proxy goes out of scope, before run or after run has returned
proxy_drop ==
    /\ ProxyOnly
    /\ px_run \in {"new", "err"}
    /\ px' = [px EXCEPT !.run = "drop", !.joins = ProxyJoins]

\* the thread has ended: its loop has returned.  (The Sender and the
\* Receiver of the ConnectionV2 are fields: they are dropped after its
\* drop has returned, so they end no thread that is being joined.)
HasEnded(j) == IF j[2] = "tx" THEN ~px_txalive[j[1]] ELSE ~px_alive[j[1]]

\* Drop for ConnectionV2: a join() returns
proxy_join ==
    /\ ProxyOnly
    /\ px_run = "drop"
    /\ HasEnded(Head(px_joins))
    /\ px' = [px EXCEPT !.joins = Tail(px_joins),
                        !.run = IF Tail(px_joins) = <<>> THEN "dropped"
                                ELSE "drop"]

ProxyInit ==
    px = [n |-> 0,
          alive |-> [side \in Sides |-> TRUE],
          rx |-> [side \in Sides |-> <<>>],
          tx |-> [side \in Sides |-> <<>>],
          got |-> [side \in Sides |-> <<>>],
          run |-> "new",
          txalive |-> [side \in Sides |-> TRUE],
          txn |-> [side \in Sides |-> 0],
          joins |-> <<>>]

-----------------------------------------------------------------------------
(* The inbound path in bytes.                                              *)

\* the bytes of the buffers, one after the other
RECURSIVE Concat(_)
Concat(bufs) == IF bufs = <<>> THEN <<>> ELSE Head(bufs) \o Concat(Tail(bufs))

\* a frame as the host writes it: the header, with data_len the length of
\* the data, and the data
FrameBytes(port, data_kind, pid, src, dst, data) ==
    Header_serialize(Header_new(port, data_kind, pid, src, dst, Len(data)))
    \o data

\* another data_kind, which no parser knows: '?'
KindOther == 63

\* The frames the host may send: Data of B for A, a Disconnect of W for A,
\* a version reply, and a frame of the other kind with one byte.
StreamFrames ==
    {FrameBytes(0, Kind.D, 240, Some(CallB), Some(CallA), <<97, 98>>),
     FrameBytes(0, Kind.d, 240, Some(CallW), Some(CallA), <<>>),
     FrameBytes(0, Kind.R, 0, None, None, <<4, 0, 0, 0, 3, 0, 0, 0>>),
     FrameBytes(0, KindOther, 0, None, None, <<7>>)}

\* the sequences of 0..n frames
RECURSIVE FrameSeqs(_)
FrameSeqs(n) ==
    IF n = 0 THEN {<<>>}
    ELSE FrameSeqs(n - 1)
         \cup {Append(q, f) : q \in {r \in FrameSeqs(n - 1) : Len(r) = n - 1},
                              f \in StreamFrames}

\* parse_reply of v1.rs, for the kinds of the frames above; a version reply
\* shorter than six bytes panics in the slicing
reply_of(header, data) ==
    CASE header.data_kind = Kind.R ->
            IF Len(data) < 6 THEN [type |-> "panic"]
            ELSE [type |-> "Version", maj |-> U16LE(data, 0),
                  min |-> U16LE(data, 4)]
      [] header.data_kind = Kind.D -> [type |-> "ConnectedData", data |-> data]
      [] header.data_kind = Kind.d -> [type |-> "Disconnect"]
      [] OTHER -> [type |-> "Unknown", header |-> header, data |-> data]

\* a reader that takes every frame to have no payload
payload_len_none(header) == 0

\* the size of the payload buffer: header.data_len()
payload_len(header) == header.data_len

ReadHeader == [st |-> "header"]
ReadPayload(h) == [st |-> "payload", header |-> h]
\* the reader has returned: after a Disconnect ("done"), on an error of the
\* socket ("socket") or of a parser ("parse"), or in a panic
Stopped(why) == [st |-> why]

\* What a reader thread does with a whole frame: parse_reply, tx.send, and
\* the end of the loop after a Disconnect.
reader_deliver(h, data) ==
    LET reply == reply_of(h, data)
    IN  IF reply.type = "panic"
        THEN [st |-> Stopped("panic"), got |-> s_got]
        ELSE [st |-> IF reply.type = "Disconnect" THEN Stopped("done")
                     ELSE ReadHeader,
              got |-> Append(s_got, [header |-> h, reply |-> reply])]

\* What the I/O task and rx_loop do with a header and its payload:
\* Packet::parse, then Router::process or tx.send.
pipo_deliver(h, data) ==
    LET packet == Packet_parse(h, data)
    IN  IF ~packet.ok THEN [st |-> Stopped("parse"), got |-> s_got]
        ELSE [st |-> ReadHeader, got |-> Append(s_got, packet.packet)]

\* read_exact is under way: on the header, or on a payload of one byte or
\* more
Reading ==
    \/ s_st = ReadHeader
    \/ s_st.st = "payload" /\ payload_len(s_st.header) > 0

\* the size of the buffer read_exact fills
ReadSize == IF s_st = ReadHeader THEN HEADER_LEN ELSE payload_len(s_st.header)

\* One read of the socket inside read_exact: it gives one byte (up to
\* MaxShort times for one buffer), or all the bytes that are there and still
\* wanted.  When the buffer is full
\* read_exact returns: the header is parsed, or the frame is delivered.  In
\* AGW::reader and in ConnectionV2::rx_loop a header with no payload is
\* delivered at once, with an empty payload; in the I/O task it is the state
\* GotHeader, from which nothing is read any more.
stream_read ==
    /\ StreamOnly
    /\ Reading
    /\ LET stream == Concat(s_frames)
           avail == Len(stream) - s_pos
           rest == ReadSize - Len(s_buf)
           whole == IF rest < avail THEN rest ELSE avail
       IN  /\ avail > 0
           /\ \E k \in {IF Len(s_buf) < MaxShort THEN 1 ELSE whole, whole} :
                LET buf == s_buf \o SubSeq(stream, s_pos + 1, s_pos + k)
                    h == parse_header(buf)
                    r == IF s_st = ReadHeader
                         THEN IF ~h.ok
                              THEN [st |-> Stopped("parse"), got |-> s_got]
                              ELSE IF s_flavour = "pipo"
                                      \/ payload_len(h.header) > 0
                              THEN [st |-> ReadPayload(h.header),
                                    got |-> s_got]
                              ELSE IF s_flavour = "rx_loop"
                              THEN pipo_deliver(h.header, <<>>)
                              ELSE reader_deliver(h.header, <<>>)
                         ELSE IF s_flavour \in {"pipo", "rx_loop"}
                              THEN pipo_deliver(s_st.header, buf)
                              ELSE reader_deliver(s_st.header, buf)
                IN  strm' = IF Len(buf) < ReadSize
                            THEN [strm EXCEPT !.pos = s_pos + k, !.buf = buf]
                            ELSE [strm EXCEPT !.pos = s_pos + k,
                                              !.buf = <<>>,
                                              !.st = r.st,
                                              !.got = r.got]

\* read_exact returns an error: the socket failed, or the host closed it
stream_read_error ==
    /\ StreamOnly
    /\ Reading
    /\ strm' = [strm EXCEPT !.st = Stopped("socket"), !.buf = <<>>]

\* Pipo::run, the other branch of select!: rx.recv() yields a packet while
\* read_exact waits for more bytes; the packet is written, the future of
\* read_exact is dropped with the bytes it had read, and the loop makes a
\* new buffer.
stream_write ==
    /\ StreamOnly
    /\ s_flavour = "pipo"
    /\ Reading
    /\ s_writes < MaxWrites
    /\ strm' = [strm EXCEPT !.writes = s_writes + 1, !.buf = <<>>]

\* the state of the loop when it starts on the frames fs
StreamStart(f, fs) ==
    [flavour |-> f, frames |-> fs, pos |-> 0, buf |-> <<>>,
     st |-> ReadHeader, got |-> <<>>, writes |-> 0]

StreamInit ==
    IF mode = "stream"
    THEN \E f \in {"reader", "rx_loop", "pipo"}, fs \in FrameSeqs(MaxStream) :
            strm = StreamStart(f, fs)
    ELSE strm = StreamStart("reader", <<>>)

-----------------------------------------------------------------------------
(* Router::add under concurrent callers.                                   *)

Adders == 1..NumAdders

\* an increment that leaves the counter as it is
ident_after_kept(n) == n

\* `*ident += 1` on a u64: MaxAdds is far from 2^64
ident_after(n) == n + 1

\* Router::add, the first block: lock ident, increment, copy, unlock
add_ident(t) ==
    /\ RouterOnly
    /\ ro_pc[t] = "idle"
    /\ Len(ro_order) < MaxAdds
    /\ LET ident == ident_after(ro_ident)
       IN  rtr' = [rtr EXCEPT !.ident = ident,
                              !.id[t] = ident,
                              !.order = Append(ro_order, ident),
                              !.pc[t] = "push"]

\* Router::add, the rest: lock rules, push, unlock; the RuleHandle
add_push(t) ==
    /\ RouterOnly
    /\ ro_pc[t] = "push"
    /\ rtr' = [rtr EXCEPT !.rules = Append(ro_rules, ro_id[t]),
                          !.handles = ro_handles \cup {ro_id[t]},
                          !.pc[t] = "idle",
                          !.id[t] = 0]

\* Vec::retain as Router::del writes it: filter(|r| r.ident != ident)
without(list, ident) == SelectSeq(list, LAMBDA r : r # ident)

\* a RuleHandle is dropped: Router::del(ident)
handle_drop ==
    /\ RouterOnly
    /\ \E i \in ro_handles :
        rtr' = [rtr EXCEPT !.rules = without(ro_rules, i),
                           !.handles = ro_handles \ {i}]

router_add == \E t \in Adders : add_ident(t)
router_push == \E t \in Adders : add_push(t)

\* Router::new
RouterInit ==
    rtr = [ident |-> 0, rules |-> <<>>, pc |-> [t \in Adders |-> "idle"],
           id |-> [t \in Adders |-> 0], handles |-> {}, order |-> <<>>]

-----------------------------------------------------------------------------
(* Router::process, rule by rule, and Router::del.                         *)

\* the RuleMatch values of the rules: Data of the circuit B -> A and of
\* another station
RuleMatches ==
    {[kind |-> "Data", src |-> "B", dst |-> Me],
     [kind |-> "Data", src |-> "C", dst |-> Me]}

\* the rule lists the calls of Router::add have made: three rules with the
\* idents 1, 2, 3 in the order of the calls
RuleLists ==
    {<<[ident |-> 1, m |-> a], [ident |-> 2, m |-> b], [ident |-> 3, m |-> c]>> :
        a \in RuleMatches, b \in RuleMatches, c \in RuleMatches}

\* the packets Pipo::run gives to Router::process: Data of the circuit
\* B -> A and its connect reply
ProcessPackets == {Parse(AFrame("D", "B", Me, 1, 1)),
                   Parse(AFrame("C", "B", Me, 1, 1))}

NoCallOfProcess == [st |-> "idle"]

\* Router::process: `let rules = self.rules.lock().unwrap().clone()`
router_process ==
    /\ ProcessOnly
    /\ rp_call = NoCallOfProcess
    /\ \E packet \in ProcessPackets :
        rp' = [rp EXCEPT !.call = [st |-> "loop", packet |-> packet,
                                   rules |-> rp_rules, any |-> FALSE],
                         !.gone = {r.ident : r \in Range(rp.all)} \ rp_handles]

\* Router::process: one turn of `for rule in rules.iter()`.  The send fails
\* when the Receiver is gone, and `?` returns the error.
process_rule ==
    /\ ProcessOnly
    /\ rp_call.st = "loop"
    /\ rp_call.rules # <<>>
    /\ LET rule == Head(rp_call.rules)
           packet == rp_call.packet
       IN  IF ~matches(rule.m, packet)
           THEN rp' = [rp EXCEPT !.call.rules = Tail(@)]
           ELSE IF ~rp_chan[rule.ident].rx
           THEN rp' = [rp EXCEPT !.call = [st |-> "returned",
                                           packet |-> packet,
                                           ret |-> "err"]]
           ELSE rp' = [rp EXCEPT !.chan[rule.ident].q = ChanSend(@, packet),
                                 !.call.rules = Tail(@),
                                 !.call.any = TRUE]

\* Router::process: the loop is over, Ok(any)
process_return ==
    /\ ProcessOnly
    /\ rp_call.st = "loop"
    /\ rp_call.rules = <<>>
    /\ rp' = [rp EXCEPT !.call = [st |-> "returned",
                                  packet |-> rp_call.packet,
                                  ret |-> IF rp_call.any THEN "true"
                                          ELSE "false"]]

\* Drop for RuleHandle: Router::del(ident)
rule_handle_drop ==
    /\ ProcessOnly
    /\ \E ident \in rp_handles :
        rp' = [rp EXCEPT !.rules = del(rp_rules, ident),
                         !.handles = rp_handles \ {ident}]

\* the Receiver of a rule is dropped.  It goes after the RuleHandle: the
\* fields of Connection and the locals of AGW::connect drop in that order.
receiver_drop ==
    /\ ProcessOnly
    /\ \E r \in Range(rp.all) :
        /\ r.ident \notin rp_handles
        /\ rp_chan[r.ident].rx
        /\ rp' = [rp EXCEPT !.chan[r.ident] = [rx |-> FALSE, q |-> <<>>]]

\* the rules are in the Router, their handles and Receivers held
ProcessStart(rs) ==
    [all |-> rs, rules |-> rs, handles |-> {r.ident : r \in Range(rs)},
     chan |-> [i \in 1..Len(rs) |-> [rx |-> TRUE, q |-> <<>>]],
     call |-> NoCallOfProcess, gone |-> {}]

ProcessInit ==
    IF mode = "process"
    THEN \E rs \in RuleLists : rp = ProcessStart(rs)
    ELSE rp = ProcessStart(<<>>)

-----------------------------------------------------------------------------
(* The asynchronous client: the I/O task and the task of a circuit, each   *)
(* the only reader of a channel the other fills.                           *)

\* Pipo::run: a Data frame of the circuit is read (header, then payload)
\* and given to Router::process, whose send to the data rule's channel
\* goes through or waits for room
io_read ==
    /\ FlowOnly
    /\ fl_io = "select"
    /\ fl' = IF fl_data < DATA_CAP
             THEN [fl EXCEPT !.data = fl_data + 1]
             ELSE [fl EXCEPT !.io = "process"]

\* Router::process: the send that waited gets room; the loop of run goes on
io_process ==
    /\ FlowOnly
    /\ fl_io = "process"
    /\ fl_data < DATA_CAP
    /\ fl' = [fl EXCEPT !.data = fl_data + 1, !.io = "select"]

\* Pipo::run: rx.recv() yields an outbound packet, write_all
io_write ==
    /\ FlowOnly
    /\ fl_io = "select"
    /\ fl_out > 0
    /\ fl' = [fl EXCEPT !.out = fl_out - 1]

\* Connection::send -> AGW::send -> Pipo::send: tx.send(packet).await goes
\* through or waits for room
conn_send ==
    /\ FlowOnly
    /\ fl_task = "idle"
    /\ fl' = IF fl_out < PIPO_CAP
             THEN [fl EXCEPT !.out = fl_out + 1]
             ELSE [fl EXCEPT !.task = "send"]

\* Pipo::send: the send that waited gets room
conn_send_wait ==
    /\ FlowOnly
    /\ fl_task = "send"
    /\ fl_out < PIPO_CAP
    /\ fl' = [fl EXCEPT !.out = fl_out + 1, !.task = "idle"]

\* Connection::recv takes a packet from the data rule's channel
conn_recv ==
    /\ FlowOnly
    /\ fl_task = "idle"
    /\ fl_data > 0
    /\ fl' = [fl EXCEPT !.data = fl_data - 1]

\* a circuit is up, both channels empty
FlowInit ==
    fl = [data |-> 0, out |-> 0, io |-> "select", task |-> "idle"]

-----------------------------------------------------------------------------
(* A circuit of the blocking client and a thread that holds a clone of the *)
(* outbound Sender and a MakeWriter, as the up_thread of examples/term.rs. *)

\* mpsc::Sender::send of a frame of the kind k on the outbound queue: the
\* frame is enqueued unless the writer thread has dropped the Receiver
Enqueued(out, k) == IF ck_writer THEN Append(out, k) ELSE out

\* Connection::write with data: a `D` frame
circuit_write ==
    /\ CircuitOnly
    /\ ck_state = "open"
    /\ Len(ck_out) < MaxOut
    /\ ck' = [ck EXCEPT !.out = Enqueued(ck_out, "D")]

\* Connection::disconnect: `if !self.disconnected`, send, set the flag
\* when the send succeeded
Disconnect(c) ==
    IF c.disconnected THEN c
    ELSE [c EXCEPT !.out = Enqueued(c.out, "d"),
                   !.disconnected = c.writer]

circuit_disconnect ==
    /\ CircuitOnly
    /\ ck_state = "open"
    /\ Len(ck_out) < MaxOut
    /\ ck' = Disconnect(ck)

\* Drop for Connection: disconnect()
circuit_drop ==
    /\ CircuitOnly
    /\ ck_state = "open"
    /\ Len(ck_out) < MaxOut
    /\ ck' = [Disconnect(ck) EXCEPT !.state = "dropped",
                                    !.life = Len(Disconnect(ck).out)]

\* the thread: sender.send(make_writer.data(..))
up_thread_data ==
    /\ CircuitOnly
    /\ ck_thread = "run"
    /\ Len(ck_out) < MaxOut
    /\ ck' = [ck EXCEPT !.out = Enqueued(ck_out, "D")]

\* the thread: sender.send(make_writer.disconnect()), return
up_thread_disconnect ==
    /\ CircuitOnly
    /\ ck_thread = "run"
    /\ Len(ck_out) < MaxOut
    /\ ck' = [ck EXCEPT !.out = Enqueued(ck_out, "d"), !.thread = "done"]

\* the writer thread ends on a socket error
circuit_writer_end ==
    /\ CircuitOnly
    /\ ck_writer
    /\ ck' = [ck EXCEPT !.writer = FALSE]

\* connect() has returned the Connection; sender() and make_writer() were
\* called and the thread started
CircuitInit ==
    ck = [disconnected |-> FALSE, state |-> "open", thread |-> "run",
          out |-> <<>>, writer |-> TRUE, life |-> 0]

-----------------------------------------------------------------------------

AsyncInit ==
    /\ anread = 0
    /\ pstate = AwaitHeader
    /\ ptx = <<>>
    /\ rident = 0
    /\ rules = <<>>
    /\ rchan = <<>>
    /\ apc = "idle"
    /\ acall = NoArgs
    /\ aconn = NoConn
    /\ areads = <<>>

CodecInit ==
    /\ cout = NoOutput
    /\ IF mode = "codec" THEN cin \in CodecInputs ELSE cin = NoInput

Init ==
    /\ mode \in {"v1", "async", "codec", "writer", "proxy", "stream",
                "router", "process", "flow", "circuit"}
    /\ V1Init
    /\ AsyncInit
    /\ CodecInit
    /\ WriterInit
    /\ ProxyInit
    /\ StreamInit
    /\ RouterInit
    /\ ProcessInit
    /\ FlowInit
    /\ CircuitInit

Next ==
    \/ reader
    \/ reader_error
    \/ writer_error
    \/ writer_exit
    \/ agw_drop
    \/ version
    \/ port_info
    \/ port_cap
    \/ connect
    \/ read
    \/ write
    \/ disconnect
    \/ drop
    \/ pipo_header
    \/ pipo_payload
    \/ pipo_process
    \/ pipo_write
    \/ pipo_error
    \/ aconnect_add
    \/ aconnect_send
    \/ aconnect_recv
    \/ aconnect_timeout
    \/ arecv
    \/ adrop
    \/ call_from_bytes
    \/ packet_serialize
    \/ packet_parse
    \/ native_parse_call
    \/ wrap_read
    \/ wrap_write
    \/ send
    \/ writer
    \/ writer_write_error
    \/ proxy_rx_loop
    \/ proxy_rx_error
    \/ proxy_run_start
    \/ proxy_run_recv
    \/ proxy_run_error
    \/ proxy_tx
    \/ proxy_drop
    \/ proxy_join
    \/ stream_read
    \/ stream_read_error
    \/ stream_write
    \/ router_add
    \/ router_push
    \/ handle_drop
    \/ router_process
    \/ process_rule
    \/ process_return
    \/ rule_handle_drop
    \/ receiver_drop
    \/ io_read
    \/ io_process
    \/ io_write
    \/ conn_send
    \/ conn_send_wait
    \/ conn_recv
    \/ circuit_write
    \/ circuit_disconnect
    \/ circuit_drop
    \/ up_thread_data
    \/ up_thread_disconnect
    \/ circuit_writer_end

-----------------------------------------------------------------------------
(* Properties.                                                             *)

\* The frame is a Data frame of the circuit c: the host reports the remote
\* station as src.
OwnData(f, c) == f.kind = "D" /\ f.src = c.dst /\ f.dst = c.src

\* The frames that reached the caller's side and were not returned yet.
Pending == Range(rxqueue) \cup Range(chan)

\* A Disconnect of the circuit c has been received.
RemoteClosed(c) ==
    \E f \in Pending : f.kind = "d" /\ ForCircuit(f, c.src, c.dst)

\* The `d` frames enqueued for the Connection c since it was created.
DFrames(c) ==
    {i \in (c.base + 1)..Len(outq) :
        outq[i] = OutFrame("d", c.src, c.dst, <<>>)}

\* C1 (blocking client): the Data frames of the circuit that read()
\* returned are in arrival order, and none of them arrived after a Data
\* frame of the circuit that is still waiting in the overflow queue or in
\* the inbound channel.
C1_V1Order ==
    conn.state # "none" =>
        /\ \A i, j \in 1..Len(reads) :
            (i < j /\ OwnData(reads[i], conn) /\ OwnData(reads[j], conn))
                => reads[i].seq < reads[j].seq
        /\ \A i \in 1..Len(reads) : \A g \in Pending :
            (OwnData(reads[i], conn) /\ OwnData(g, conn))
                => reads[i].seq < g.seq

\* The packet is Data of the asynchronous circuit c.
AOwnData(p, c) == p.type = "Data" /\ p.src = c.dst /\ p.dst = c.src

\* C1 (asynchronous client): what recv() returned is Data of the circuit in
\* arrival order, and none of it arrived after a packet that still waits in
\* the channel of the circuit's rule.
C1_AsyncOrder ==
    aconn.state = "open" =>
        /\ \A i \in 1..Len(areads) : AOwnData(areads[i], aconn)
        /\ \A i, j \in 1..Len(areads) :
            i < j => areads[i].seq < areads[j].seq
        /\ \A i \in 1..Len(areads) : \A g \in Range(rchan[aconn.rule].q) :
            AOwnData(g, aconn) /\ areads[i].seq < g.seq
        /\ \A i, j \in 1..Len(rchan[aconn.rule].q) :
            i < j => rchan[aconn.rule].q[i].seq < rchan[aconn.rule].q[j].seq

\* C1: successive read() calls on a circuit return the Data frames of the
\* circuit in the order in which they arrived on the socket, whether they
\* come from the overflow queue or the inbound channel (blocking client) or
\* from the channel of the circuit's rule (asynchronous client).
C1_ReadOrder == C1_V1Order /\ C1_AsyncOrder

\* the asynchronous circuit was made on the first frame and recv() returned
\* the second and the third
C1_AsyncWitness ==
    /\ aconn.state = "open"
    /\ Len(areads) = 2
    /\ areads[1].seq = 2 /\ areads[2].seq = 3

\* the first frame was queued by connect() before the connect reply, the
\* third came after it; read() returned them in that order
C1_V1Witness ==
    /\ conn.state = "open"
    /\ conn.connect_string = 2
    /\ Len(reads) = 2
    /\ OwnData(reads[1], conn) /\ reads[1].seq = 1
    /\ OwnData(reads[2], conn) /\ reads[2].seq = 3

\* C2: read() on a circuit returns only Data frames whose header (src, dst)
\* is (remote, local) of the circuit.
C2_ReadOnlyOwn ==
    conn.state # "none" => \A i \in 1..Len(reads) : OwnData(reads[i], conn)

\* C3: a frame taken from the inbound channel is returned to the caller or
\* kept in the overflow queue; none is discarded.
C3_NoFrameDiscarded ==
    [][(chan # <<>> /\ chan' = Tail(chan))
        => (Head(chan) \in Range(rxqueue') \/ ret'.frame = Head(chan))]_vars

\* C4: an operation blocks on the inbound channel only when the overflow
\* queue holds no frame it expects.
C4_QueueScannedFirst ==
    /\ pc = "version" => \A f \in Range(rxqueue) : f.kind # "R"
    /\ pc = "port_info" => \A f \in Range(rxqueue) : f.kind # "G"
    /\ pc = "port_cap" => \A f \in Range(rxqueue) : f.kind # "g"
    /\ pc = "connect" =>
        \A f \in Range(rxqueue) :
            ~(f.kind = "C" /\ ~NotForUs(f, call.src, call.dst))
    /\ pc = "read" =>
        \A f \in Range(rxqueue) : ~OwnData(f, conn)

\* C5 as stated: a dropped circuit has enqueued exactly one `d` frame.
C5_ExactlyOneDisconnect ==
    conn.state = "dropped" => Cardinality(DFrames(conn)) = 1

\* C5 amended: disconnect() calls and the drop enqueue at most one `d` frame
\* between them, the flag tells whether it has been enqueued, and a dropped
\* circuit has enqueued exactly one unless the outbound queue was closed.
C5_AtMostOneDisconnect ==
    conn.state # "none" =>
        /\ Cardinality(DFrames(conn)) <= 1
        /\ conn.disconnected <=> Cardinality(DFrames(conn)) = 1
        /\ (conn.state = "dropped" /\ writerAlive)
            => Cardinality(DFrames(conn)) = 1

\* a circuit on which disconnect() was called, then write(), then dropped
C5_Witness ==
    /\ conn.state = "dropped"
    /\ Len(outq) = conn.base + 2
    /\ outq[conn.base + 1].kind = "d"
    /\ outq[conn.base + 2].kind = "D"
    /\ Cardinality(DFrames(conn)) = 1

\* C6: once a circuit is disconnected, by disconnect() or by a received
\* Disconnect, no `D` frame of the circuit is enqueued any more.
C6_NoDataAfterDisconnect ==
    [][(conn.state = "open" /\ (conn.disconnected \/ RemoteClosed(conn)))
        => ~(/\ Len(outq') = Len(outq) + 1
             /\ outq'[Len(outq')].kind = "D"
             /\ outq'[Len(outq')].src = conn.src
             /\ outq'[Len(outq')].dst = conn.dst)]_vars

\* C7, in every state: read() has returned no Data frame that arrived
\* after a Disconnect of the circuit; once read() has returned an error no
\* Data frame can come any more (the reader has stopped, the channel holds
\* no Data frame, the scan of the queue ends at the Disconnect or finds
\* nothing); and a read() blocked after the Disconnect can take a step.
C7_State ==
    conn.state = "open" =>
        /\ \A i \in 1..Len(reads) : \A d \in Pending :
            (d.kind = "d" /\ ForCircuit(d, conn.src, conn.dst))
                => reads[i].seq < d.seq
        /\ conn.eof =>
            /\ ~readerAlive
            /\ \A f \in Range(chan) : f.kind # "D"
            /\ LET n == ScanStop(rxqueue, conn.src, conn.dst)
               IN  n = 0 \/ rxqueue[n].kind = "d"
        /\ (pc = "read" /\ RemoteClosed(conn))
            => (chan # <<>> \/ ~readerAlive)

\* C7, in every step: after read() has returned an error on a circuit it
\* returns no frame on that circuit again.
C7_Step == (conn.state = "open" /\ conn.eof /\ conn' = conn) => reads' = reads

\* C7: once a Disconnect of the circuit has been received, read() returns
\* the Data frames that preceded it and then an error, at every later call
\* too, and it does not block for ever.
C7_RemoteDisconnect == []C7_State /\ [][C7_Step]_vars

\* "bye" then Disconnect: read() returned the Data frame, the next read()
\* the error
C7_Witness ==
    /\ conn.state = "open"
    /\ conn.eof
    /\ Len(reads) = 1 /\ OwnData(reads[1], conn)
    /\ RemoteClosed(conn)
    /\ ret = Returned("read", "err", NoFrame)

\* C8: connect() with more than MAX_HOPS via callsigns returns TooManyHops
\* and enqueues nothing.
C8_TooManyHops ==
    (call.op = "connect" /\ Len(call.via) > MAX_HOPS)
        => (ret.status = "TooManyHops" /\ Len(outq) = call.base)

\* C9: connect() with 1..MAX_HOPS via callsigns enqueues one `v` frame
\* with the hop count and the callsigns, and then waits for the reply.
C9_ConnectVia ==
    (call.op = "connect" /\ Len(call.via) \in 1..MAX_HOPS)
        => /\ pc = "connect"
           /\ Len(outq) = call.base + 1
           /\ outq[Len(outq)] =
                OutFrame("v", call.src, call.dst, ViaPayload(call.via))

\* C10 (blocking client): connect() with no via callsigns returns a circuit
\* only in a step that takes from the inbound channel a `C` frame whose
\* (src, dst) is (dst, src) of the request; the connect string is that
\* frame's payload, and the call has enqueued exactly one frame, the `C`
\* frame of the request.
C10_V1Step ==
    (conn' # conn /\ conn'.state = "open" /\ conn.state # "open")
        => /\ pc = "connect" /\ call.via = <<>>
           /\ chan # <<>>
           /\ Head(chan).kind = "C"
           /\ Head(chan).src = call.dst /\ Head(chan).dst = call.src
           /\ conn'.src = call.src /\ conn'.dst = call.dst
           /\ conn'.connect_string = Head(chan).seq
           /\ outq' = outq
           /\ Len(outq) = call.base + 1
           /\ outq[Len(outq)] = OutFrame("C", call.src, call.dst, <<>>)

\* C10 (asynchronous client): connect() puts one Connect packet on the
\* outbound channel and nothing else, and returns a circuit only in a step
\* that takes from its channel the packet of a `C` frame whose (src, dst)
\* is (dst, src) of the request; the connect string is that frame's banner.
C10_AsyncStep ==
    /\ (apc = "added" /\ apc' = "connect")
        => ptx' = Append(ptx, [type |-> "Connect", src |-> acall'.src,
                               dst |-> acall'.dst])
    /\ apc = "connect" => (ptx' = ptx \/ (ptx # <<>> /\ ptx' = Tail(ptx)))
    /\ (aconn' # aconn /\ aconn'.state = "open")
        => /\ apc = "connect"
           /\ rchan[acall.estab].q # <<>>
           /\ LET reply == Head(rchan[acall.estab].q)
              IN  /\ reply.type = "ConnectionEstablished"
                  /\ reply.src = acall.dst /\ reply.dst = acall.src
                  /\ aconn'.src = acall.src /\ aconn'.dst = acall.dst
                  /\ aconn'.connect_string = reply.seq

\* C10: connect() with no via callsigns emits exactly one `C` frame and
\* returns a circuit only after the `C` frame whose (src, dst) is (dst, src)
\* of the request has been received; the circuit's connect string is the
\* banner of that frame.
C10_ConnectReply == [][C10_V1Step /\ C10_AsyncStep]_vars

\* the blocking connect() returned a circuit on the second frame; the first
\* frame was not kept
C10_V1Witness ==
    /\ conn.state = "open"
    /\ conn.connect_string = 2
    /\ ret = Returned("connect", "ok", Frame("C", conn.dst, conn.src, 2))
    /\ rxqueue = <<>> /\ chan = <<>>
    /\ nread = 2

\* the asynchronous connect() returned a circuit on the first frame
C10_AsyncWitness ==
    /\ aconn.state = "open"
    /\ aconn.connect_string = TODO
    /\ anread = 1

\* C11: when the `C` frame that answers the connect() in progress carries
\* a banner that starts with neither accepted text, connect() returns an
\* error and creates no circuit.
C11_BannerRejected ==
    [][(/\ pc = "connect"
        /\ chan # <<>>
        /\ chan' = Tail(chan)
        /\ Head(chan).kind = "C"
        /\ ~NotForUs(Head(chan), call.src, call.dst)
        /\ Head(chan).reply # <<BannerWith>>)
        => (/\ ret'.op = "connect" /\ ret'.status = "err"
            /\ pc' = "idle"
            /\ conn' = conn)]_vars

\* C12: a connect() that ends without a circuit, no reply having come, has
\* returned to its caller, which can go on using the client.
C12_TimeoutReturned ==
    [][(/\ apc = "connect"
        /\ rchan[acall.estab].q = <<>>
        /\ apc' # "connect")
        => (apc' = "idle" /\ aconn' = aconn)]_vars

\* The bytes a callsign may hold: NUL, '-', digits and letters.
CallAlphabet == {0, 45} \cup (48..57) \cup (65..90) \cup (97..122)

\* C15: Call::from_bytes(B) succeeds exactly when B has at most 10 bytes,
\* each of them NUL, an ASCII letter or digit, or '-'; the callsign is then
\* B followed by NUL bytes up to 10 bytes.
C15_FromBytes ==
    cout.st = "call" =>
        LET B == cin.bytes
            r == cout.call
        IN  /\ r.ok <=> (Len(B) <= 10 /\ \A i \in 1..Len(B) : B[i] \in CallAlphabet)
            /\ r.ok => /\ Len(r.bytes) = 10
                       /\ \A i \in 1..10 :
                            r.bytes[i] = IF i <= Len(B) THEN B[i] ELSE 0

\* a string of 10 bytes with a '-' in it was accepted
C15_Witness ==
    /\ cout.st = "call"
    /\ cout.call.ok
    /\ Len(cin.bytes) = 10
    /\ \E i \in 1..10 : cin.bytes[i] = 45

\* C13: what Packet::serialize returns is HEADER_LEN + data_len bytes long,
\* data_len being the little-endian u32 at the bytes 28..32: the payload
\* after the header has the length the header gives.
C13_FrameLength ==
    cout.st \in {"bytes", "parsed"} =>
        Len(cout.bytes) = 36 + u32_from_le_bytes(SubSeq(cout.bytes, 29, 32))

\* C14: the bytes of a packet, read back as a frame, give the packet.
C14_RoundTrip ==
    cout.st = "parsed" => cout.parsed = ParseOkay(cin.packet)

\* a Data packet with data comes back as it was
C14_DataWitness ==
    /\ cout.st = "parsed"
    /\ cin.packet.type = "Data"
    /\ Len(cin.packet.data) = 2
    /\ cout.parsed = ParseOkay(cin.packet)

\* C16: the bytes on the socket are the bytes of the buffers dequeued so
\* far, whole and in enqueue order.
C16_SocketStream ==
    sock = Concat(SubSeq(wlog, 1, Len(wlog) - Len(wchan)))

\* the frames whose bytes the reader has taken whole
FramesTaken == SubSeq(s_frames, 1, Len(s_got))

\* what a reader thread delivers for a frame of the host, told from the
\* bytes of the frame: the header fields at their places, the payload after
\* the 36 bytes
Delivered(f) ==
    LET data == SubSeq(f, 37, Len(f))
        call_(i) == IF \A j \in i..(i + 9) : f[j] = 0 THEN None
                    ELSE Some(SubSeq(f, i, i + 9))
        h == [port |-> f[1], data_kind |-> f[5], pid |-> f[7],
              data_len |-> Len(data), src |-> call_(9), dst |-> call_(19)]
    IN  [header |-> h,
         reply |-> CASE f[5] = 82 -> [type |-> "Version",
                                      maj |-> data[1] + 256 * data[2],
                                      min |-> data[5] + 256 * data[6]]
                     [] f[5] = 68 -> [type |-> "ConnectedData", data |-> data]
                     [] f[5] = 100 -> [type |-> "Disconnect"]
                     [] OTHER -> [type |-> "Unknown", header |-> h,
                                  data |-> data]]

\* C24: a reader thread takes from the socket exactly the 36 bytes of a
\* header and then the data_len bytes of its payload, however the socket
\* splits the stream: the bytes it has taken are the frames it has
\* delivered, whole, then the header it holds and the part of the buffer it
\* has filled (until the socket fails); what it has delivered is the frames
\* of the host in the order of the stream; and no parser fails on them.
\* The receive loop of the proxy reads the same way: as long as it runs
\* (Packet::parse stops it at a frame kind it does not know) it is at the
\* same place of the stream and has sent the packets of the frames in order.
C24_Aligned ==
    /\ (mode = "stream" /\ s_flavour = "reader") =>
        /\ Len(s_got) <= Len(s_frames)
        /\ s_st.st # "socket" =>
                s_pos = Len(Concat(FramesTaken))
                        + (IF s_st.st = "payload" THEN 36 ELSE 0) + Len(s_buf)
        /\ \A i \in 1..Len(s_got) : s_got[i] = Delivered(s_frames[i])
        /\ s_st.st = "payload" =>
                /\ Len(s_got) < Len(s_frames)
                /\ s_st.header = Delivered(s_frames[Len(s_got) + 1]).header
        /\ s_st.st \notin {"parse", "panic"}
    /\ (mode = "stream" /\ s_flavour = "rx_loop") =>
        /\ Len(s_got) <= Len(s_frames)
        /\ s_st.st \in {"header", "payload"} =>
                s_pos = Len(Concat(FramesTaken))
                        + (IF s_st.st = "payload" THEN 36 ELSE 0) + Len(s_buf)
        /\ \A i \in 1..Len(s_got) :
                LET f == Delivered(s_frames[i])
                IN  s_got[i] = Packet_parse(f.header,
                                   SubSeq(s_frames[i], 37,
                                          Len(s_frames[i]))).packet
        /\ s_st.st = "payload" =>
                /\ Len(s_got) < Len(s_frames)
                /\ s_st.header = Delivered(s_frames[Len(s_got) + 1]).header
                /\ s_st.header.data_len > 0
        /\ s_st.st = "parse" =>
                /\ Len(s_got) < Len(s_frames)
                /\ s_frames[Len(s_got) + 1][5] \notin {82, 67, 68}
                /\ s_pos = Len(Concat(SubSeq(s_frames, 1, Len(s_got) + 1)))

\* after a first frame was delivered, one of the two payload bytes of a Data
\* frame is in the buffer
C24_Witness ==
    /\ mode = "stream" /\ s_flavour = "reader"
    /\ Len(s_got) = 1
    /\ s_st.st = "payload" /\ s_st.header.data_kind = 68
    /\ s_buf = <<97>>
    /\ s_pos = Len(s_frames[1]) + 37

\* C25: the I/O task never holds a header without reading or writing: a
\* header with data_len = 0 is parsed with an empty payload and delivered
\* when it is received, as the reader thread does, so a header the task holds
\* is one whose payload it is reading (and it may write meanwhile).
C25_EmptyPayload ==
    (mode = "stream" /\ s_flavour = "pipo" /\ s_st.st = "payload")
        => /\ Reading
           /\ ENABLED (stream_read \/ stream_read_error \/ stream_write)

\* C26: the I/O task loses no inbound byte when an outbound packet is
\* written while a read is under way: as long as the task reads, the bytes
\* it has taken from the socket are the frames it has delivered, whole, then
\* the header it holds and the part of the buffer it has filled, so that the
\* next header it parses begins where the next frame of the stream begins.
C26_NoByteLost ==
    (mode = "stream" /\ s_flavour = "pipo" /\ s_st.st \in {"header", "payload"})
        => s_pos = Len(Concat(FramesTaken))
                   + (IF s_st.st = "payload" THEN 36 ELSE 0) + Len(s_buf)

\* C28: a reader thread that delivers a Disconnect whose (src, dst) is not
\* (B, A), the remote and the local callsign of the circuit, does not stop.
C28_ForeignDisconnect ==
    [][(/\ mode = "stream" /\ s_flavour = "reader"
        /\ Len(s_got') = Len(s_got) + 1
        /\ s_got'[Len(s_got')].reply.type = "Disconnect"
        /\ s_got'[Len(s_got')].header.src # Some(CallB))
        => s_st' = ReadHeader]_vars

\* C23: Wrap::write gives the backend the caller's bytes and returns the
\* backend's count; Wrap::read, for a buffer of any size, returns Ok(m) with
\* the first m bytes of the buffer the wrapped form of the bytes read from
\* the backend, or an error when the backend or the wrapper fails: it does
\* nothing else, whatever m and the size of the buffer are.
C23_Wrap ==
    /\ cout.st = "wrap_write" =>
            IF cin.backend_fails THEN cout.write.result = "err"
            ELSE /\ cout.write.result = "ok"
                 /\ cout.write.n = cin.count
                 /\ cout.write.written = SubSeq(cin.buf, 1, cin.count)
    /\ cout.st = "wrap_read" =>
            IF cin.backend_fails \/ cin.wrap_fails
            THEN cout.read.result = "err"
            ELSE /\ cout.read.result = "ok"
                 /\ cout.read.n = crypto_sign_bytes + cin.size
                 /\ SubSeq(cout.read.buf, 1, cout.read.n)
                        = sign(BackendBytes(cin.size), FALSE).bytes

\* C22 (asynchronous client): a frame whose kind Packet::parse does not know
\* does not end the I/O task: once its payload is read the task awaits the
\* next header.
C22_UnknownKeepsReader ==
    [][(/\ pstate.st = "GotHeader"
        /\ pstate.header.kind \notin {"R", "C", "D"}
        /\ pstate' # pstate
        /\ anread' = anread)
        => pstate' = AwaitHeader]_vars

\* the text d is a way to write the integer v of 0..15: its decimal digits,
\* with zeros before them or not, with a '+' in front or not
StandsFor(d, v) ==
    LET body == IF d # <<>> /\ d[1] = 43 THEN Tail(d) ELSE d
        digits == IF v < 10 THEN <<48 + v>> ELSE <<49, 48 + (v - 10)>>
        k == Len(body) - Len(digits)
    IN  /\ k >= 0
        /\ \A i \in 1..k : body[i] = 48
        /\ SubSeq(body, k + 1, Len(body)) = digits

\* the upper-case letter of a letter, any other character itself
Upper(c) == IF c \in 97..122 THEN c - 32 ELSE c

\* C21: parse_call(text) succeeds exactly when the text is a base call of 3
\* to 6 ASCII letters and digits, alone or followed by '-' and an integer
\* 0..15; the result is 7 bytes: the characters of the base call in upper
\* case, each shifted left one bit, then 0x40 up to the sixth byte, and the
\* seventh ((ssid + '0') << 1) & 0x1E, which is twice the SSID (0 when no
\* SSID is given).
C21_ParseCall ==
    cout.st = "bin" =>
        LET t == cin.text
            r == cout.result
            AlNum == (48..57) \cup (65..90) \cup (97..122)
            Shape(n, v, withssid) ==
                /\ Len(t) >= n
                /\ \A i \in 1..n : t[i] \in AlNum
                /\ IF withssid
                   THEN /\ Len(t) > n /\ t[n + 1] = 45
                        /\ StandsFor(SubSeq(t, n + 2, Len(t)), v)
                   ELSE Len(t) = n /\ v = 0
            Want(n, v) ==
                [i \in 1..7 |-> IF i = 7 THEN 2 * v
                                ELSE IF i <= n THEN 2 * Upper(t[i]) ELSE 64]
        IN  /\ r.ok <=> \E n \in 3..6, v \in 0..15, w \in BOOLEAN :
                            Shape(n, v, w)
            /\ \A n \in 3..6, v \in 0..15, w \in BOOLEAN :
                    Shape(n, v, w) => r.bin = Want(n, v)

\* "mmmmm-15" is parsed into the bytes of "MMMMM" and 30
C21_Witness ==
    /\ cout.st = "bin"
    /\ cin.text = <<109, 109, 109, 109, 109, 45, 49, 53>>
    /\ cout.result = [ok |-> TRUE, bin |-> <<154, 154, 154, 154, 154, 64, 30>>]

\* C20: what the proxy has sent upstream is, after its own version query,
\* what the client callback made of the packets it took from downstream, in
\* the order it took them; what it has sent downstream is what the server
\* callback made of the packets it took from upstream, in that order.
C20_Relay ==
    px_run # "new"
        => /\ px_tx["up"] = <<[type |-> "VersionQuery"]>> \o px_got["down"]
           /\ px_tx["down"] = px_got["up"]

\* C19: version() puts one R query on the outbound queue; then every frame
\* it takes from the inbound channel that is no R reply goes to the end of
\* the overflow queue, and the first R reply ends it: it returns (major,
\* minor), the little-endian u16 of payload bytes 0..2 and of bytes 4..6
\* (the n-th frame of the host carries n 1 0 0 n+1 2 0 0), and leaves the
\* overflow queue as it is.
C19_Version ==
    [][/\ (pc = "idle" /\ pc' = "version")
            => outq' = Append(outq, OutFrame("R", NoCall, NoCall, <<>>))
       /\ (pc = "version" /\ outq' # outq) => FALSE
       /\ (pc = "version" /\ chan # <<>> /\ chan' = Tail(chan))
            => LET f == Head(chan)
               IN  IF f.kind = "R"
                   THEN /\ pc' = "idle"
                        /\ ret'.op = "version" /\ ret'.status = "ok"
                        /\ ret'.frame.reply
                                = <<f.seq + 256 * 1, (f.seq + 1) + 256 * 2>>
                        /\ rxqueue' = rxqueue
                   ELSE /\ pc' = "version"
                        /\ rxqueue' = rxqueue \o <<f>>]_vars

\* version() has returned the version of the third frame of the host after
\* it moved the two frames before it to the overflow queue
C19_Witness ==
    /\ pc = "idle"
    /\ ret.op = "version" /\ ret.status = "ok"
    /\ ret.frame.seq = 3 /\ ret.frame.reply = <<259, 516>>
    /\ outq = <<OutFrame("R", NoCall, NoCall, <<>>)>>
    /\ Len(rxqueue) = 2 /\ rxqueue[1].seq = 1 /\ rxqueue[2].seq = 2

\* C18: a write() on a circuit that returns Ok returns the number of bytes
\* it was given; for one byte or more it has put exactly one D frame on the
\* outbound queue, with the port and pid of the circuit, src the local
\* callsign, dst the remote one and as many data bytes as it returned; for
\* no bytes it has put nothing there.  It fails only when the writer thread
\* is gone, and then it has put nothing there either.
C18_Write ==
    [][(/\ ret'.op = "write"
        /\ pc = "idle" /\ conn.state = "open"
        /\ UNCHANGED <<nread, readerAlive, writerAlive>>)
        => \/ /\ ret'.status = "ok"
              /\ ret'.len = 0
              /\ outq' = outq
           \/ /\ ret'.status = "ok"
              /\ ret'.len > 0
              /\ outq' = Append(outq, outq'[Len(outq')])
              /\ LET f == outq'[Len(outq')]
                 IN  /\ f.kind = "D"
                     /\ f.port = ConnPort /\ f.pid = ConnPid
                     /\ f.src = Me /\ f.dst = conn.dst
                     /\ Len(f.data) = ret'.len
           \/ /\ ret'.status = "err"
              /\ ~writerAlive
              /\ outq' = outq]_vars

\* a write of one byte has returned 1, its D frame is the last of the
\* outbound queue
C18_Witness ==
    /\ ret.op = "write" /\ ret.status = "ok" /\ ret.len = 1
    /\ conn.state = "open"
    /\ Len(outq) > conn.base + 1
    /\ outq[Len(outq)] = DataFrame(ConnPort, ConnPid, Me, conn.dst, <<0>>)

\* C17: once the AGW is dropped, the reader thread and the writer thread
\* both end, whatever the host does (a host that sends nothing more and
\* keeps the socket open included).
C17_WorkersExit == ~agwAlive ~> (~readerAlive /\ ~writerAlive)

Spec == Init /\ [][Next]_vars

\* The writer thread's rx.recv() returns as soon as the Sender is dropped:
\* that step is the program's own and is taken.  The steps of the reader
\* thread wait for the host (a frame, or the end of the socket), so nothing
\* forces them.
\* C29: once the reader thread has ended and the frames it had delivered
\* are consumed (the inbound channel and the overflow queue are empty), a
\* call blocked in version(), port_info(), port_cap(), connect() or read()
\* can return, and whatever such a call returns, blocked before or entered
\* later, is an error.
C29_QueueClosed ==
    [][(mode = "v1" /\ ~readerAlive /\ chan = <<>> /\ rxqueue = <<>>) =>
        /\ pc \in {"version", "port_info", "port_cap", "connect", "read"}
                => ENABLED RecvError(pc)
        /\ (ret' # ret /\ ret'.op \in {"version", "port_info", "port_cap",
                                       "connect", "read"})
                => ret'.status = "err"]_vars

\* C30: whatever the interleaving of the calls of Router::add, the
\* identities are handed out as 1, 2, 3, ... in the order of the calls'
\* locking, no two adds under way hold the same identity or one that is in
\* the list, and the list never holds an identity twice.
C30_Idents ==
    mode = "router" =>
        /\ ro_order = [i \in 1..Len(ro_order) |-> i]
        /\ \A i, j \in 1..Len(ro_rules) :
                i # j => ro_rules[i] # ro_rules[j]
        /\ \A t \in Adders : ro_pc[t] = "push" =>
                /\ ro_id[t] \in 1..ro_ident
                /\ ro_id[t] \notin Range(ro_rules)
                /\ \A u \in Adders \ {t} :
                        ro_pc[u] = "push" => ro_id[u] # ro_id[t]
        /\ \A i \in 1..Len(ro_rules) : ro_rules[i] \in 1..ro_ident

\* two adds overlapped and pushed in the other order, and a third is under
\* way
C30_Witness ==
    /\ mode = "router"
    /\ ro_rules = <<2, 1>>
    /\ \E t \in Adders : ro_pc[t] = "push" /\ ro_id[t] = 3

\* the rules whose RuleHandle is still held, in the order of the adds
Held(rs, handles) == SelectSeq(rs, LAMBDA r : r.ident \in handles)

\* C31, in every state: the rule list holds exactly the rules whose
\* RuleHandle has not been dropped, in the order they were added.
C31_State ==
    mode = "process" => rp_rules = Held(rp.all, rp_handles)

\* C31, in every step: a call of Router::process puts a packet on the
\* channel of no rule whose RuleHandle had been dropped when the call began.
C31_Step ==
    mode = "process" =>
        \A r \in Range(rp.all) :
            Len(rp_chan'[r.ident].q) > Len(rp_chan[r.ident].q)
                => r.ident \notin rp_gone

\* C31: once the drop of a RuleHandle has returned the rule list is without
\* that rule, the other rules are there in their order, and no call of
\* Router::process that begins afterwards delivers to the dropped rule.
C31_HandleDrop == []C31_State /\ [][C31_Step]_vars

\* the handle of the second of three rules that match the packet was
\* dropped, then process was called: the first and the third rule got the
\* packet and the second did not
C31_Witness ==
    /\ mode = "process"
    /\ rp_call.st = "returned"
    /\ rp_call.ret = "true"
    /\ rp_gone = {2}
    /\ \A r \in Range(rp.all) : matches(r.m, rp_call.packet)
    /\ rp_rules = <<rp.all[1], rp.all[3]>>
    /\ rp_chan[1].q = <<rp_call.packet>>
    /\ rp_chan[2] = [rx |-> TRUE, q |-> <<>>]
    /\ rp_chan[3].q = <<rp_call.packet>>

\* C32: when Router::process has returned, every rule that was in the list
\* at the call and matches the packet has one copy of it on its channel
\* (as long as the channel has its Receiver), no other channel has
\* anything, and the call returned true exactly when a rule matched.
C32_Process ==
    (mode = "process" /\ rp_call.st = "returned") =>
        /\ \A r \in Range(rp.all) :
                rp_chan[r.ident].rx =>
                    rp_chan[r.ident].q =
                        IF r.ident \notin rp_gone
                           /\ matches(r.m, rp_call.packet)
                        THEN <<rp_call.packet>>
                        ELSE <<>>
        /\ rp_call.ret =
                IF \E r \in Range(rp.all) :
                        r.ident \notin rp_gone /\ matches(r.m, rp_call.packet)
                THEN "true"
                ELSE "false"

C34_DisconnectFails ==
    mode = "v1" =>
        /\ ret.op = "disconnect" =>
            /\ conn.state = "open"
            /\ ret.status = IF conn.disconnected THEN "ok" ELSE "err"
            /\ ret.status = "err" => ~writerAlive /\ DFrames(conn) = {}
        /\ ret.op = "drop" =>
            /\ ret.status = "ok"
            /\ pc = "idle"
            /\ conn.state = "dropped"
            /\ ~conn.disconnected => ~writerAlive /\ DFrames(conn) = {}

\* the writer thread has ended and disconnect() has returned the error
C34_Witness ==
    /\ mode = "v1"
    /\ ret.op = "disconnect"
    /\ ret.status = "err"
    /\ ~conn.disconnected
    /\ ~writerAlive

\* as C34_Witness, for the drop: the circuit was dropped with the queue
\* closed
C34_DropReached ==
    /\ mode = "v1"
    /\ ret.op = "drop"
    /\ ~conn.disconnected
    /\ ~writerAlive

\* the rules AGW::connect registers for the call in progress
EstabRule == Rule(acall.estab, "ConnectionEstablished", acall.dst, acall.src)
DataRule == Rule(acall.data, "Data", acall.dst, acall.src)

\* C35, in every state: while connect() waits for the reply, its Connect
\* packet handed over, both of its rules are in the rule list.
C35_State ==
    (mode = "async" /\ apc = "connect") =>
        /\ EstabRule \in Range(rules)
        /\ DataRule \in Range(rules)

\* C35, in every step: both rules are in the list in the state in which the
\* Connect packet is put on the channel of the I/O task; and while connect()
\* waits, a connect reply or a Data frame of the circuit that the I/O task
\* gives to the Router goes to the channel of its rule (or waits for room
\* on it).
C35_Step ==
    mode = "async" =>
        /\ (Len(ptx') = Len(ptx) + 1 /\ ptx'[Len(ptx')].type = "Connect")
            => /\ EstabRule \in Range(rules)
               /\ DataRule \in Range(rules)
               /\ ptx'[Len(ptx')].src = acall.src
               /\ ptx'[Len(ptx')].dst = acall.dst
        /\ (/\ apc = "connect"
            /\ pstate.st = "GotHeader"
            /\ pstate' # pstate
            /\ anread' = anread
            /\ pstate.header.kind \in {"C", "D"}
            /\ pstate.header.src = acall.dst
            /\ pstate.header.dst = acall.src)
            => LET ident == IF pstate.header.kind = "C" THEN acall.estab
                            ELSE acall.data
               IN  \/ pstate'.st = "InProcess"
                   \/ rchan'[ident].q =
                        Append(rchan[ident].q, Parse(pstate.header))

\* C35: in the asynchronous connect() both rules of the circuit are in the
\* rule list before the Connect packet is handed to the I/O task, so that
\* no reply and no early Data frame of the circuit finds its rule missing.
C35_RulesBeforeConnect == []C35_State /\ [][C35_Step]_vars

\* connect() waits for the reply, and a Data frame of the circuit that came
\* before the reply is on the channel of the data rule
C35_Witness ==
    /\ mode = "async"
    /\ apc = "connect"
    /\ rchan[acall.estab].q = <<>>
    /\ Len(rchan[acall.data].q) = 1
    /\ rchan[acall.data].q[1].type = "Data"

\* C36: whenever no connect() is under way (it has not been called, has
\* returned a circuit or an error, or has panicked on the timeout), the rule
\* list holds no rule for a connect reply, and it holds the data rule of the
\* circuit exactly when the Connection exists.
C36_RuleLifetime ==
    (mode = "async" /\ apc \notin {"added", "connect"}) =>
        rules = IF aconn.state = "open"
                THEN <<Rule(aconn.rule, "Data", aconn.dst, aconn.src)>>
                ELSE <<>>

\* a second circuit is up: the rules of the first connect() and the reply
\* rule of the second are gone
C36_Witness ==
    /\ mode = "async"
    /\ apc = "idle"
    /\ aconn.state = "open"
    /\ aconn.rule = 4
    /\ rules = <<Rule(4, "Data", aconn.dst, aconn.src)>>

\* C37: a Connection::send that waits for room on the outbound channel
\* completes in the end: the I/O task comes back to write outbound packets,
\* whatever the fill of the circuit's data channel.
C37_SendCompletes ==
    (mode = "flow" /\ fl_task = "send") ~> (fl_task = "idle")

\* the I/O task waits in Router::process on the full data channel, and the
\* task of the circuit waits in send on the full outbound channel
C37_BothWait ==
    /\ mode = "flow"
    /\ fl_io = "process"
    /\ fl_task = "send"
    /\ fl_data = DATA_CAP
    /\ fl_out = PIPO_CAP

\* C38: while the writer thread runs, every buffer it has dequeued is on
\* the socket whole, as one run of bytes; the runs of two buffers do not
\* overlap, and the runs of the buffers of one producer are in the order in
\* which that producer enqueued them.
C38_Contiguous ==
    (mode = "writer" /\ wAlive) =>
        LET n == Len(wlog) - Len(wchan)
            end(start, i) == start[i] + Len(wlog[i])
        IN  \E start \in [1..n -> 0..Len(sock)] :
                /\ \A i \in 1..n :
                        /\ end(start, i) <= Len(sock)
                        /\ SubSeq(sock, start[i] + 1, end(start, i)) = wlog[i]
                /\ \A i, j \in 1..n :
                        i # j => \/ end(start, i) <= start[j]
                                 \/ end(start, j) <= start[i]
                /\ \A i, j \in 1..n :
                        (i < j /\ wby[i] = wby[j])
                            => end(start, i) <= start[j]

\* C39: of the frames enqueued up to the end of the drop of the Connection
\* at most one is a `d` frame of the circuit, whoever enqueued it:
\* disconnect(), the drop, or the thread that sends the frame of
\* MakeWriter::disconnect through its clone of the Sender.
C39_OneDisconnect ==
    mode = "circuit" =>
        LET life == IF ck_state = "dropped" THEN ck_life ELSE Len(ck_out)
        IN  Cardinality({i \in 1..life : ck_out[i] = "d"}) <= 1

\* C40: the drop of a Proxy, once begun, comes to its end: the four
\* threads of its two ConnectionV2 have ended and were joined.
C40_DropCompletes ==
    (mode = "proxy" /\ px_run = "drop") ~> (px_run = "dropped")

\* both sockets were closed by the peers and both rx_loop threads have
\* ended; the drop waits in its first join, for a writing thread that
\* waits for packets
C40_JoinWaits ==
    /\ mode = "proxy"
    /\ px_run = "drop"
    /\ px_joins = ProxyJoins
    /\ \A side \in Sides : ~px_alive[side] /\ px_txalive[side]
    /\ \A side \in Sides : px_txn[side] = Len(px_tx[side])

\* C27: the end of either worker ends the other: once the reader thread has
\* ended (socket error, parse error, or after a Disconnect) the writer
\* thread ends, and once the writer thread has ended the reader thread ends.
C27_WorkersReleaseEachOther ==
    /\ (mode = "v1" /\ ~readerAlive) ~> ~writerAlive
    /\ (mode = "v1" /\ ~writerAlive) ~> ~readerAlive

\* A join() returns once its thread has ended, and a thread with a packet
\* to write does write it.
\* The I/O task and the task of a circuit are polled when they can go on:
\* a send that has room completes, and the select! of run takes its ready
\* branches at random, so that the outbound branch is taken in the end.
\* Nothing forces the task of a circuit to call recv or send.
FairSpec ==
    /\ Spec
    /\ WF_vars(writer_exit)
    /\ WF_vars(io_write)
    /\ WF_vars(io_process)
    /\ WF_vars(conn_send_wait)
    /\ WF_vars(proxy_tx)
    /\ WF_vars(proxy_join)
====
